---- MODULE Spec2Model ----
(***************************************************************************)
(* A model of the command execution path of cli-microsoft365 as far as the *)
(* commands under src/ exercise it: option-set enforcement, the validator  *)
(* pipeline, telemetry, the confirmation prompt of destructive commands,   *)
(* the lookups by identifier or name, the error normaliser and the         *)
(* concurrent admin-consent grants of `aad app add`.                       *)
(*                                                                         *)
(* One behaviour is one invocation of one command.  The command and its    *)
(* options are chosen in Init; every answer of the outside world (the      *)
(* upstream service, the person at the prompt) is chosen by the action     *)
(* that consumes it.  Strings the code builds with template literals are   *)
(* tuples of their parts, so that "the message contains X" can be asked.   *)
(***************************************************************************)
EXTENDS Integers, Sequences, FiniteSets, TLC

VARIABLES
  command,        \* name of the command being invoked
  options,        \* args.options: option name -> value (Undef when absent)
  stage,          \* stage of the executor
  pc,             \* position inside the command's commandAction
  validatorsRun,  \* number of validators of the pipeline that have run
  checksRun,      \* <<validator, check>> pairs evaluated so far, in order
  telemetry,      \* telemetryProperties written by the telemetry hooks
  trace,          \* prompts and upstream requests issued, in order
  promptOptions,  \* the options of every Cli.prompt call, in order
  log,            \* result channel (logger.log)
  stderr,         \* diagnostic channel (logger.logToStderr)
  error,          \* message of the error the invocation ended with
  exitCode,       \* exit code of the process, None while running
  failedAt,       \* stage in which the invocation failed, None otherwise
  lookups,        \* key and matches of every lookup that has answered
  resolved,       \* identifier the action resolved for its main request
  teamId,         \* TeamsChannelGetCommand.teamId
  manifest,       \* AadAppAddCommand.manifest
  appName,        \* AadAppAddCommand.appName
  appPermissions, \* AadAppAddCommand.appPermissions
  appInfo,        \* appInfo threaded through AadAppAddCommand.commandAction
  tasks,          \* the sub-operations of the fan-out: request, fate, state
  settled,        \* indices of the tasks in the order they settled
  m365rc,         \* the local registration file .m365rc.json
  answers,        \* what the service, the file system and the person at the
                  \* prompt answered to the commands of Next, in order
  firstRun        \* the invocation as it started and, once it is run again
                  \* without diagnostics, as it ended

vars == <<command, options, stage, pc, validatorsRun, checksRun, telemetry,
          trace, promptOptions, log, stderr, error, exitCode, failedAt,
          lookups, resolved, teamId, manifest, appName, appPermissions, appInfo, tasks, settled,
          m365rc, answers, firstRun>>

(***************************************************************************)
(* Values                                                                  *)
(***************************************************************************)
None == "none"
Undef == "undefined"
NoError == <<>>

\* Largest number of items a lookup response carries.
MaxMatches == 2

\* Largest number of records .m365rc.json holds when an invocation starts.
MaxFileApps == 2

GuidVal == "11111111-1111-1111-1111-111111111111"
BadVal == "not-a-guid"
NameVal == "Contoso"
ChannelIdVal == "19:channel@thread.skype"
UrlVal == "https://contoso.sharepoint.com/sites/sales"

IdName == <<"id1", "id2", "id3", "id4">>

\* Every list of distinct identifiers of at most MaxMatches items.
Matches ==
  UNION { { s \in [1..n -> {IdName[i] : i \in 1..MaxMatches}] :
              \A i, j \in 1..n : i # j => s[i] # s[j] } : n \in 0..MaxMatches }

Present(opts, o) == o \in DOMAIN opts /\ opts[o] # Undef

\* JavaScript truthiness of an option value: absent options and '' are falsy.
Truthy(opts, o) == Present(opts, o) /\ opts[o] # ""

Get(opts, o) == IF o \in DOMAIN opts THEN opts[o] ELSE Undef

Contains(seq, x) == \E i \in 1..Len(seq) : seq[i] = x

RECURSIVE JoinWith(_, _)
\* Array.prototype.join: the items with the separator between them.
JoinWith(seq, sep) ==
  IF Len(seq) = 0 THEN <<>>
  ELSE IF Len(seq) = 1 THEN <<seq[1]>>
  ELSE <<seq[1], sep>> \o JoinWith(Tail(seq), sep)

isValidGuid(v) == v = GuidVal
isValidTeamsChannelId(v) == v = ChannelIdVal
isValidSharePointUrl(v) ==
  IF v = UrlVal THEN <<>> ELSE <<v, " is not a valid SharePoint Online site URL">>

(***************************************************************************)
(* The commands, their options and the values an invocation may supply     *)
(***************************************************************************)
AppGet == "aad app get"
SpGet == "aad sp get"
ChannelGet == "teams channel get"
TeamRemove == "teams team remove"
FeatureList == "spo feature list"
AppAdd == "aad app add"
ChannelSet == "teams channel set"

GuidChoices == {Undef, GuidVal, BadVal}
NameChoices == {Undef, NameVal}
FlagChoices == {Undef, "true"}

AppGetOptions ==
  [appId : GuidChoices, objectId : GuidChoices, name : NameChoices,
   save : FlagChoices, verbose : FlagChoices, debug : FlagChoices]

SpGetOptions ==
  [appId : GuidChoices, displayName : NameChoices, objectId : GuidChoices,
   verbose : FlagChoices]

ChannelGetOptions ==
  [teamId : GuidChoices, teamName : NameChoices,
   channelId : {Undef, ChannelIdVal, BadVal}, channelName : NameChoices,
   primary : FlagChoices]

\* teamId and channelName are required options of `teams channel set`.
ChannelSetOptions ==
  [teamId : {GuidVal, BadVal}, channelName : {NameVal, "General", "GENERAL"},
   newChannelName : {Undef, "Renamed"}, description : {Undef, "About"}]

TeamRemoveOptions ==
  [id : GuidChoices, name : NameChoices, teamId : GuidChoices,
   confirm : FlagChoices]

FeatureListOptions ==
  [url : {UrlVal, BadVal}, scope : {Undef, "Site", "Web", "Farm"},
   verbose : FlagChoices]

OptionsOf(cmd) ==
  CASE cmd = AppGet -> AppGetOptions
    [] cmd = SpGet -> SpGetOptions
    [] cmd = ChannelGet -> ChannelGetOptions
    [] cmd = TeamRemove -> TeamRemoveOptions
    [] cmd = ChannelSet -> ChannelSetOptions
    [] cmd = FeatureList -> FeatureListOptions

\* this.optionSets of each command.
AppGetOptionSets == << <<"appId", "objectId", "name">> >>
\* A constructor that never calls #initOptionSets.
SpGetOptionSetsUnregistered == <<>>

SpGetOptionSets == << <<"appId", "displayName", "objectId">> >>
\* A registration that leaves out the set of the channel options.
ChannelGetOptionSetsTeamOnly == << <<"teamId", "teamName">> >>

ChannelGetOptionSets ==
  << <<"teamId", "teamName">>, <<"channelId", "channelName", "primary">> >>

OptionSets(cmd) ==
  CASE cmd = AppGet -> AppGetOptionSets
    [] cmd = SpGet -> SpGetOptionSets
    [] cmd = ChannelGet -> ChannelGetOptionSets
    [] OTHER -> <<>>

\* Commands whose action removes something and asks before doing so.
\* An executor that asks for confirmation whatever the command.
DestructiveAlways(cmd) == TRUE

Destructive(cmd) == cmd = TeamRemove

(***************************************************************************)
(* Option-set enforcement                                                  *)
(***************************************************************************)
PresentMembers(set, opts) == {i \in 1..Len(set) : Present(opts, set[i])}

\* The failure message of one option set, <<>> when exactly one is present.
OptionSetResult(set, opts) ==
  LET n == Cardinality(PresentMembers(set, opts))
  IN IF n = 0 THEN <<"Specify one of: ">> \o JoinWith(set, ", ")
     ELSE IF n > 1
       THEN <<"Specify one of ">> \o JoinWith(set, ", ") \o <<" but not multiple">>
       ELSE <<>>

\* The message of the first option set that fails, <<>> when all pass.
ValidateOptionSets(sets, opts) ==
  LET failing == {i \in 1..Len(sets) : OptionSetResult(sets[i], opts) # <<>>}
  IN IF failing = {} THEN <<>>
     ELSE OptionSetResult(sets[CHOOSE i \in failing : \A j \in failing : i <= j], opts)

(***************************************************************************)
(* Validators.  A validator is the list of its checks in source order;     *)
(* a check is whether it fails on the options and the string it returns.   *)
(***************************************************************************)
Check(fails, msg) == [fails |-> fails, msg |-> msg]

AppGetValidator(opts) ==
  << Check(Truthy(opts, "appId") /\ ~isValidGuid(opts.appId),
           <<opts.appId, " is not a valid GUID">>),
     Check(Truthy(opts, "objectId") /\ ~isValidGuid(opts.objectId),
           <<opts.objectId, " is not a valid GUID">>) >>

SpGetValidator(opts) ==
  << Check(Truthy(opts, "appId") /\ ~isValidGuid(opts.appId),
           <<opts.appId, " is not a valid appId GUID">>),
     Check(Truthy(opts, "objectId") /\ ~isValidGuid(opts.objectId),
           <<opts.objectId, " is not a valid objectId GUID">>) >>

ChannelGetValidator(opts) ==
  << Check(Truthy(opts, "teamId") /\ ~isValidGuid(opts.teamId),
           <<opts.teamId, " is not a valid GUID">>),
     Check(Truthy(opts, "channelId") /\ ~isValidTeamsChannelId(opts.channelId),
           <<opts.channelId, " is not a valid Teams ChannelId">>) >>

\* String.prototype.toLowerCase on the channel names an invocation may give.
toLowerCase(v) ==
  CASE v \in {"General", "GENERAL"} -> "general"
    [] v = NameVal -> "contoso"
    [] OTHER -> v

ChannelSetValidator(opts) ==
  << Check(~isValidGuid(opts.teamId), <<opts.teamId, " is not a valid GUID">>),
     Check(toLowerCase(opts.channelName) = "general",
           <<"General channel cannot be updated">>) >>

TeamRemoveValidator(opts) ==
  << Check(~Truthy(opts, "id") /\ ~Truthy(opts, "name") /\ ~Truthy(opts, "teamId"),
           <<"Specify either id or name">>),
     Check(Truthy(opts, "name") /\ (Truthy(opts, "id") \/ Truthy(opts, "teamId")),
           <<"Specify either id or name but not both">>),
     Check(Truthy(opts, "teamId") /\ ~isValidGuid(opts.teamId),
           <<opts.teamId, " is not a valid GUID">>),
     Check(Truthy(opts, "id") /\ ~isValidGuid(opts.id),
           <<opts.id, " is not a valid GUID">>) >>

\* A validator that leaves the scope unchecked.
FeatureListValidatorUrlOnly(opts) ==
  << Check(isValidSharePointUrl(opts.url) # <<>>, isValidSharePointUrl(opts.url)) >>

FeatureListValidator(opts) ==
  << Check(Truthy(opts, "scope") /\ opts.scope # "Site" /\ opts.scope # "Web",
           <<opts.scope, " is not a valid Feature scope. Allowed values are Site|Web">>),
     Check(isValidSharePointUrl(opts.url) # <<>>, isValidSharePointUrl(opts.url)) >>

(***************************************************************************)
(* aad app add: options, manifest and validator                            *)
(***************************************************************************)
aadApplicationPlatform == <<"spa", "web", "publicClient">>
aadAppScopeConsentBy == <<"admins", "adminsAndUsers">>

\* Files fs.existsSync finds.
CertFile == "cert.pfx"
MissingFile == "missing.pfx"
existsSync(path) == path = CertFile

\* Values of --manifest: text that is no JSON, the JSON null, a JSON number,
\* an object without a name, with a name, and with a name and
\* requiredResourceAccess.
ManifestBroken == "{"
ManifestNull == "null"
ManifestNumber == "5"
ManifestEmpty == "{}"
ManifestNamed == "{\"name\":\"Manifest app\"}"
ManifestWithApis == "{\"name\":\"Manifest app\",\"requiredResourceAccess\":[...]}"

ManifestApis ==
  << [resourceAppId |-> "sp1-app",
      resourceAccess |-> << [id |-> "s1-id", type |-> "Scope"],
                            [id |-> "r1-id", type |-> "Role"],
                            [id |-> "zz-id", type |-> "Scope"] >>] >>

\* JSON.parse of a manifest: whether it throws, and the value it yields.
JsonParse(text) ==
  CASE text = ManifestNull ->
         [ok |-> TRUE, value |-> [kind |-> "null", name |-> Undef, requiredResourceAccess |-> <<>>]]
    [] text = ManifestNumber ->
         [ok |-> TRUE, value |-> [kind |-> "number", name |-> Undef, requiredResourceAccess |-> <<>>]]
    [] text = ManifestEmpty ->
         [ok |-> TRUE, value |-> [kind |-> "object", name |-> Undef, requiredResourceAccess |-> <<>>]]
    [] text = ManifestNamed ->
         [ok |-> TRUE, value |-> [kind |-> "object", name |-> "Manifest app", requiredResourceAccess |-> <<>>]]
    [] text = ManifestWithApis ->
         [ok |-> TRUE, value |-> [kind |-> "object", name |-> "Manifest app", requiredResourceAccess |-> ManifestApis]]
    [] OTHER ->
         [ok |-> FALSE, value |-> [kind |-> "undefined", name |-> Undef, requiredResourceAccess |-> <<>>]]

\* A validator whose manifest block has no try: what JSON.parse or the read
\* of .name throws leaves the validator as it is.
AppAddValidatorWithoutTry(opts) ==
  << Check(~Truthy(opts, "manifest") /\ ~Truthy(opts, "name"),
           <<"Specify either the name of the app to create or the manifest">>),
     Check(Truthy(opts, "manifest") /\ ~JsonParse(opts.manifest).ok,
           <<"SyntaxError">>),
     Check(/\ Truthy(opts, "manifest") /\ ~Truthy(opts, "name")
           /\ JsonParse(Get(opts, "manifest")).value.kind = "null",
           <<"TypeError">>) >>

AppAddValidator(opts) ==
  LET parsed == JsonParse(Get(opts, "manifest"))
  IN
  << Check(~Truthy(opts, "manifest") /\ ~Truthy(opts, "name"),
           <<"Specify either the name of the app to create or the manifest">>),
     Check(Truthy(opts, "platform") /\ ~Contains(aadApplicationPlatform, opts.platform),
           <<Get(opts, "platform"), " is not a valid value for platform. Allowed values are ">>
             \o JoinWith(aadApplicationPlatform, ", ")),
     Check(Truthy(opts, "redirectUris") /\ ~Truthy(opts, "platform"),
           <<"When you specify redirectUris you also need to specify platform">>),
     Check(Truthy(opts, "certificateFile") /\ Truthy(opts, "certificateBase64Encoded"),
           <<"Specify either certificateFile or certificateBase64Encoded but not both">>),
     Check(/\ Truthy(opts, "certificateDisplayName")
           /\ ~Truthy(opts, "certificateFile")
           /\ ~Truthy(opts, "certificateBase64Encoded"),
           <<"When you specify certificateDisplayName you also need to specify certificateFile or certificateBase64Encoded">>),
     Check(Truthy(opts, "certificateFile") /\ ~existsSync(opts.certificateFile),
           <<"Certificate file not found">>),
     Check(Truthy(opts, "scopeName") /\ ~Truthy(opts, "uri"),
           <<"When you specify scopeName you also need to specify uri">>),
     Check(Truthy(opts, "scopeName") /\ ~Truthy(opts, "scopeAdminConsentDescription"),
           <<"When you specify scopeName you also need to specify scopeAdminConsentDescription">>),
     Check(Truthy(opts, "scopeName") /\ ~Truthy(opts, "scopeAdminConsentDisplayName"),
           <<"When you specify scopeName you also need to specify scopeAdminConsentDisplayName">>),
     Check(Truthy(opts, "scopeConsentBy") /\ ~Contains(aadAppScopeConsentBy, opts.scopeConsentBy),
           <<Get(opts, "scopeConsentBy"), " is not a valid value for scopeConsentBy. Allowed values are ">>
             \o JoinWith(aadAppScopeConsentBy, ", ")),
     Check(Truthy(opts, "manifest") /\ ~parsed.ok,
           <<"Error while parsing the specified manifest: ", "SyntaxError">>),
     Check(/\ Truthy(opts, "manifest") /\ parsed.ok /\ ~Truthy(opts, "name")
           /\ parsed.value.kind = "null",
           <<"Error while parsing the specified manifest: ", "TypeError">>),
     Check(/\ Truthy(opts, "manifest") /\ parsed.ok /\ ~Truthy(opts, "name")
           /\ parsed.value.kind # "null" /\ parsed.value.name = Undef,
           <<"Specify the name of the app to create either through the 'name' option or the 'name' property in the manifest">>) >>

\* The check of AppAddValidator that parses the manifest.
ManifestCheck == 11

\* this.manifest after a validator has evaluated its first `ran` checks.
ManifestAfter(cmd, opts, ran, before) ==
  IF cmd = AppAdd /\ Truthy(opts, "manifest") /\ ran >= ManifestCheck
     /\ JsonParse(opts.manifest).ok
    THEN JsonParse(opts.manifest).value
    ELSE before

\* this.validators of each command, in registration order.
Validators(cmd, opts) ==
  CASE cmd = AppGet -> << AppGetValidator(opts) >>
    [] cmd = SpGet -> << SpGetValidator(opts) >>
    [] cmd = ChannelGet -> << ChannelGetValidator(opts) >>
    [] cmd = TeamRemove -> << TeamRemoveValidator(opts) >>
    [] cmd = FeatureList -> << FeatureListValidator(opts) >>
    [] cmd = AppAdd -> << AppAddValidator(opts) >>
    [] cmd = ChannelSet -> << ChannelSetValidator(opts) >>

\* A validator that evaluates every check and returns the string of the last
\* one that fails.
RunChecksKeepLast(checks) ==
  LET failing == {i \in 1..Len(checks) : checks[i].fails}
      last == CHOOSE i \in failing : \A j \in failing : i >= j
  IN IF failing = {}
       THEN [ran |-> Len(checks), message |-> <<>>]
       ELSE [ran |-> Len(checks), message |-> checks[last].msg]

\* One run of a validator: the checks it evaluates, up to and including the
\* first that fails, and the string it returns (<<>> for true).
RunChecks(checks) ==
  LET failing == {i \in 1..Len(checks) : checks[i].fails}
      first == CHOOSE i \in failing : \A j \in failing : i <= j
  IN IF failing = {}
       THEN [ran |-> Len(checks), message |-> <<>>]
       ELSE [ran |-> first, message |-> checks[first].msg]

(***************************************************************************)
(* Telemetry hooks                                                         *)
(***************************************************************************)
Bool(b) == IF b THEN "true" ELSE "false"

\* A hook that echoes the name it was given.
TelemetryOfEchoingName(cmd, opts) == [name |-> Get(opts, "name")]

TelemetryOf(cmd, opts) ==
  CASE cmd = AppGet ->
         [appId |-> Bool(Present(opts, "appId")),
          objectId |-> Bool(Present(opts, "objectId")),
          name |-> Bool(Present(opts, "name"))]
    [] cmd = SpGet ->
         [appId |-> Bool(Truthy(opts, "appId")),
          displayName |-> Bool(Truthy(opts, "displayName")),
          objectId |-> Bool(Truthy(opts, "objectId"))]
    [] cmd = ChannelGet ->
         [teamId |-> Bool(Present(opts, "teamId")),
          teamName |-> Bool(Present(opts, "teamName")),
          channelId |-> Bool(Present(opts, "channelId")),
          channelName |-> Bool(Present(opts, "channelName")),
          primary |-> Bool(Truthy(opts, "primary"))]
    [] cmd = TeamRemove -> [confirm |-> Bool(Truthy(opts, "confirm"))]
    [] cmd = ChannelSet ->
         [newChannelName |-> Bool(Present(opts, "newChannelName")),
          description |-> Bool(Present(opts, "description"))]
    [] cmd = FeatureList ->
         [scope |-> IF Truthy(opts, "scope") THEN opts.scope ELSE "Web"]
    [] cmd = AppAdd ->
         [apis |-> Bool(Present(opts, "apisDelegated")),
          implicitFlow |-> Get(opts, "implicitFlow"),
          multitenant |-> Get(opts, "multitenant"),
          platform |-> Get(opts, "platform"),
          redirectUris |-> Bool(Present(opts, "redirectUris")),
          scopeAdminConsentDescription |-> Bool(Present(opts, "scopeAdminConsentDescription")),
          scopeAdminConsentDisplayName |-> Bool(Present(opts, "scopeAdminConsentDisplayName")),
          scopeConsentBy |-> Get(opts, "scopeConsentBy"),
          scopeName |-> Bool(Present(opts, "scopeName")),
          uri |-> Bool(Present(opts, "uri")),
          withSecret |-> Get(opts, "withSecret"),
          certificateFile |-> Bool(Present(opts, "certificateFile")),
          certificateBase64Encoded |-> Bool(Present(opts, "certificateBase64Encoded")),
          certificateDisplayName |-> Bool(Present(opts, "certificateDisplayName")),
          grantAdminConsent |-> Bool(Present(opts, "grantAdminConsent"))]

(***************************************************************************)
(* Upstream requests, prompts and failures                                 *)
(***************************************************************************)
Request(method, url) == [type |-> "request", method |-> method, url |-> url]
PromptEvent(o) == [type |-> "prompt", method |-> o.type, url |-> o.message]
AnswerEvent(continue) ==
  [type |-> "answer", method |-> IF continue THEN "yes" ELSE "no", url |-> <<>>]

Requests(tr) == SelectSeq(tr, LAMBDA e : e.type = "request")
Prompts(tr) == SelectSeq(tr, LAMBDA e : e.type = "prompt")
Deletes(tr) == SelectSeq(tr, LAMBDA e : e.type = "request" /\ e.method = "DELETE")

\* What a rejected promise carries: a string the command threw or rejected
\* with, an OData error payload of the service, or a payload without message.
Thrown(msg) == [shape |-> "string", message |-> msg]
UpstreamError == [shape |-> "odata", message |-> <<"upstream: access denied">>]
OpaqueError == [shape |-> "opaque", message |-> <<>>]
UpstreamFailures == {UpstreamError, OpaqueError}

\* A normalizer that hands on whatever message the raw failure carries.
NormalizeMessageOnly(raw) == raw.message

\* handleRejectedODataJsonPromise: the one line surfaced for a raw failure.
Normalize(raw) ==
  IF raw.shape = "opaque" THEN <<"An error has occurred">> ELSE raw.message

(***************************************************************************)
(* Initial states                                                          *)
(***************************************************************************)
NoManifest == [kind |-> "undefined", name |-> Undef, requiredResourceAccess |-> <<>>]
NoAppInfo == [appId |-> None, id |-> None, created |-> FALSE, secret |-> None]

Commands == {AppGet, SpGet, ChannelGet, TeamRemove, FeatureList}

\* The state of the process when an invocation starts.
Fresh ==
  /\ stage = "Parse"
  /\ pc = None
  /\ validatorsRun = 0
  /\ checksRun = <<>>
  /\ telemetry = <<>>
  /\ trace = <<>>
  /\ promptOptions = <<>>
  /\ log = <<>>
  /\ stderr = <<>>
  /\ error = NoError
  /\ exitCode = None
  /\ failedAt = None
  /\ lookups = <<>>
  /\ resolved = None
  /\ teamId = ""
  /\ manifest = NoManifest
  /\ appName = ""
  /\ appPermissions = <<>>
  /\ appInfo = NoAppInfo
  /\ tasks = <<>>
  /\ settled = <<>>
  /\ answers = <<>>
  /\ firstRun = [phase |-> 1, options |-> options, file |-> m365rc, stage |-> stage,
                 trace |-> <<>>, log |-> <<>>, stderr |-> <<>>, answers |-> <<>>]

\* What .m365rc.json may hold when an invocation starts.
AppRecords ==
  {[appId |-> "app1", name |-> "First app"], [appId |-> "app2", name |-> "Second app"]}

AppLists ==
  UNION { { l \in [1..n -> AppRecords] : \A i, j \in 1..n : i # j => l[i] # l[j] } :
          n \in 0..MaxFileApps }

NoFile == [kind |-> "absent", apps |-> <<>>]

Files ==
  {NoFile, [kind |-> "empty", apps |-> <<>>], [kind |-> "garbage", apps |-> <<>>],
   [kind |-> "null", apps |-> <<>>], [kind |-> "object", apps |-> <<>>]}
  \cup {[kind |-> "apps", apps |-> l] : l \in AppLists}

Init ==
  /\ command \in Commands
  /\ options \in OptionsOf(command)
  /\ m365rc \in IF Truthy(options, "save") THEN Files ELSE {NoFile}
  /\ Fresh

instanceVars == <<teamId, manifest, appName, appPermissions>>
fanVars == <<tasks, settled>>
fileVars == <<m365rc>>
inputVars == <<command, options>>
validationVars == <<validatorsRun, checksRun>>
channelVars == <<log, stderr>>
historyVars == <<answers, firstRun>>

(***************************************************************************)
(* The executor up to the command's action                                 *)
(***************************************************************************)
Failed(msg) ==
  /\ stage' = "Failed"
  /\ error' = msg
  /\ exitCode' = 1
  /\ failedAt' = stage

Parse ==
  /\ stage = "Parse"
  /\ stage' = "EnforceOptionSets"
  /\ UNCHANGED <<historyVars, inputVars, pc, validationVars, telemetry, trace, promptOptions,
                 channelVars, error, exitCode, failedAt, resolved, instanceVars, appInfo,
                 fanVars, m365rc, lookups>>

EnforceOptionSets ==
  /\ stage = "EnforceOptionSets"
  /\ LET msg == ValidateOptionSets(OptionSets(command), options)
     IN IF msg = <<>>
          THEN stage' = "Validate" /\ UNCHANGED <<error, exitCode, failedAt>>
          ELSE Failed(msg)
  /\ UNCHANGED <<historyVars, inputVars, pc, validationVars, telemetry, trace, promptOptions,
                 channelVars, resolved, instanceVars, appInfo, fanVars, m365rc, lookups>>

\* The next validator of the pipeline runs to its end.
RunValidator ==
  /\ stage = "Validate"
  /\ LET vs == Validators(command, options)
         n == validatorsRun + 1
         r == RunChecks(vs[n])
     IN /\ validatorsRun' = n
        /\ checksRun' = checksRun \o [i \in 1..r.ran |-> <<n, i>>]
        /\ manifest' = ManifestAfter(command, options, r.ran, manifest)
        /\ IF r.message # <<>>
             THEN Failed(r.message)
             ELSE /\ stage' = IF n = Len(vs) THEN "CollectTelemetry" ELSE "Validate"
                  /\ UNCHANGED <<error, exitCode, failedAt>>
  /\ UNCHANGED <<historyVars, inputVars, pc, telemetry, trace, promptOptions, channelVars,
                 resolved, teamId, appName, appPermissions, appInfo, fanVars,
                 m365rc, lookups>>

\* An executor that goes on to the action without invoking the hooks.
SkipTelemetry ==
  /\ stage = "CollectTelemetry"
  /\ stage' = IF Destructive(command) THEN "ConfirmationGate" ELSE "RunAction"
  /\ pc' = "start"
  /\ UNCHANGED <<historyVars, inputVars, validationVars, telemetry, trace, promptOptions, channelVars,
                 error, exitCode, failedAt, resolved, instanceVars, appInfo, fanVars, m365rc, lookups>>

CollectTelemetry ==
  /\ stage = "CollectTelemetry"
  /\ telemetry' = TelemetryOf(command, options)
  /\ stage' = IF Destructive(command) THEN "ConfirmationGate" ELSE "RunAction"
  /\ pc' = "start"
  /\ UNCHANGED <<historyVars, inputVars, validationVars, trace, promptOptions, channelVars,
                 error, exitCode, failedAt, resolved, instanceVars, appInfo, fanVars, m365rc, lookups>>

(***************************************************************************)
(* Endings of a command's action                                           *)
(***************************************************************************)
\* A catch that swallows the failure and lets the invocation succeed.
RejectQuietly(raw) ==
  /\ stage' = "EmitResult"
  /\ exitCode' = 0
  /\ pc' = "done"
  /\ UNCHANGED <<error, failedAt>>

\* catch (err) { this.handleRejectedODataJsonPromise(err); }
Reject(raw) ==
  /\ Failed(Normalize(raw))
  /\ pc' = "done"

\* An action that ends well with a non-zero exit code.
ResolveNonZero ==
  /\ stage' = "EmitResult"
  /\ exitCode' = 1
  /\ pc' = "done"
  /\ UNCHANGED <<error, failedAt>>

Resolve ==
  /\ stage' = "EmitResult"
  /\ exitCode' = 0
  /\ pc' = "done"
  /\ UNCHANGED <<error, failedAt>>

(***************************************************************************)
(* aadGroup.getGroupByDisplayName                                          *)
(***************************************************************************)
GroupResponses ==
  UpstreamFailures \cup
  { [shape |-> "groups", ids |-> m, isTeam |-> t] : m \in Matches, t \in BOOLEAN }

\* The outcome of the lookup of a group by display name on a response.
GetGroupByDisplayName(name, resp) ==
  IF resp.shape # "groups" THEN [ok |-> FALSE, raw |-> resp]
  ELSE IF Len(resp.ids) = 0
    THEN [ok |-> FALSE,
          raw |-> Thrown(<<"The specified group '", name, "' does not exist.">>)]
  ELSE IF Len(resp.ids) > 1
    THEN [ok |-> FALSE,
          raw |-> Thrown(<<"Multiple groups with name '", name, "' found: ">>
                          \o JoinWith(resp.ids, ","))]
  ELSE [ok |-> TRUE, id |-> resp.ids[1], isTeam |-> resp.isTeam]

(***************************************************************************)
(* teams team remove                                                       *)
(***************************************************************************)
\* A prompt whose default answer is yes.
TeamRemovePromptDefaultYes(opts) ==
  [type |-> "confirm", name |-> "continue", default |-> TRUE,
   message |-> <<"Are you sure you want to remove the team ", Get(opts, "teamId"), "?">>]

TeamRemovePrompt(opts) ==
  [type |-> "confirm", name |-> "continue", default |-> FALSE,
   message |-> <<"Are you sure you want to remove the team ", Get(opts, "teamId"), "?">>]

\* An action that asks whatever the options say.
BypassNever(opts) == FALSE

\* if (args.options.confirm): the prompt is bypassed.
Bypass(opts) == Truthy(opts, "confirm")

\* An action that ignores the answer.
ConfirmedWhateverTheAnswer(continue) == TRUE

\* if (result.continue): the answer lets removeTeam run.
Confirmed(continue) == continue

DeleteGroup(id) == Request("DELETE", <<"groups/", id>>)
GroupsByName(name) == Request("GET", <<"groups?$filter=displayName eq ", name>>)

\* An action that looks the team up by its name before it asks.
TeamRemoveStartEager ==
  /\ command = TeamRemove
  /\ stage = "ConfirmationGate"
  /\ pc = "start"
  /\ LET opts == IF Truthy(options, "teamId")
                   THEN [options EXCEPT !.id = options.teamId]
                   ELSE options
     IN /\ options' = opts
        /\ stderr' = IF Truthy(options, "teamId")
                       THEN Append(stderr, <<"Option 'teamId' is deprecated. Please use 'id' instead.">>)
                       ELSE stderr
        /\ IF Bypass(opts)
             THEN /\ stage' = "RunAction"
                  /\ pc' = "removeTeam"
                  /\ UNCHANGED <<trace, promptOptions>>
             ELSE /\ stage' = "ConfirmationGate"
                  /\ pc' = "prompt"
                  /\ promptOptions' = Append(promptOptions, TeamRemovePrompt(opts))
                  /\ trace' = trace \o (IF Truthy(opts, "name")
                                           THEN <<GroupsByName(opts.name)>>
                                           ELSE <<>>)
                                      \o <<PromptEvent(TeamRemovePrompt(opts))>>
  /\ UNCHANGED <<historyVars, command, validationVars, telemetry, log, error, exitCode, failedAt,
                 resolved, instanceVars, appInfo, fanVars, m365rc, lookups>>

\* commandAction up to the prompt, or up to the call of removeTeam.
TeamRemoveStart ==
  /\ command = TeamRemove
  /\ stage = "ConfirmationGate"
  /\ pc = "start"
  /\ LET opts == IF Truthy(options, "teamId")
                   THEN [options EXCEPT !.id = options.teamId]
                   ELSE options
     IN /\ options' = opts
        /\ stderr' = IF Truthy(options, "teamId")
                       THEN Append(stderr, <<"Option 'teamId' is deprecated. Please use 'id' instead.">>)
                       ELSE stderr
        /\ IF Bypass(opts)
             THEN /\ stage' = "RunAction"
                  /\ pc' = "removeTeam"
                  /\ UNCHANGED <<trace, promptOptions>>
             ELSE /\ stage' = "ConfirmationGate"
                  /\ pc' = "prompt"
                  /\ promptOptions' = Append(promptOptions, TeamRemovePrompt(opts))
                  /\ trace' = Append(trace, PromptEvent(TeamRemovePrompt(opts)))
  /\ UNCHANGED <<historyVars, command, validationVars, telemetry, log, error, exitCode, failedAt,
                 resolved, instanceVars, appInfo, fanVars, m365rc, lookups>>

\* The answer to the prompt arrives.
TeamRemoveAnswer ==
  /\ command = TeamRemove
  /\ pc = "prompt"
  /\ \E continue \in BOOLEAN :
       /\ answers' = Append(answers, [shape |-> "answer", continue |-> continue])
       /\ trace' = Append(trace, AnswerEvent(continue))
       /\ IF Confirmed(continue)
            THEN /\ stage' = "RunAction"
                 /\ pc' = "removeTeam"
                 /\ UNCHANGED <<error, exitCode, failedAt>>
            ELSE /\ stage' = "Declined"
                 /\ pc' = "done"
                 /\ exitCode' = 0
                 /\ UNCHANGED <<error, failedAt>>
  /\ UNCHANGED <<firstRun, inputVars, validationVars, telemetry, promptOptions,
                 channelVars, resolved, instanceVars, appInfo, fanVars, m365rc, lookups>>

\* removeTeam up to its first request: getTeamId, then the delete.
TeamRemoveRemoveTeam ==
  /\ command = TeamRemove
  /\ pc = "removeTeam"
  /\ IF Truthy(options, "id")
       THEN /\ resolved' = options.id
            /\ trace' = Append(trace, DeleteGroup(options.id))
            /\ pc' = "awaitDelete"
       ELSE /\ trace' = Append(trace, GroupsByName(options.name))
            /\ pc' = "awaitGroup"
            /\ UNCHANGED resolved
  /\ UNCHANGED <<historyVars, inputVars, stage, validationVars, telemetry, promptOptions,
                 channelVars, error, exitCode, failedAt, instanceVars, appInfo, fanVars, m365rc, lookups>>

\* A getTeamId that takes the one group of that name, team or not.
TeamRemoveGroupResponseAnyGroup ==
  /\ command = TeamRemove
  /\ pc = "awaitGroup"
  /\ \E resp \in GroupResponses :
       /\ answers' = Append(answers, resp)
       /\ lookups' = IF resp.shape \in {"list", "groups"}
                       THEN Append(lookups, [key |-> (options.name), ids |-> resp.ids])
                       ELSE lookups
       /\ LET g == GetGroupByDisplayName(options.name, resp)
          IN IF ~g.ok
               THEN Reject(g.raw) /\ UNCHANGED <<trace, resolved>>
             ELSE /\ resolved' = g.id
                  /\ trace' = Append(trace, DeleteGroup(g.id))
                  /\ pc' = "awaitDelete"
                  /\ UNCHANGED <<stage, error, exitCode, failedAt>>
  /\ UNCHANGED <<firstRun, inputVars, validationVars, telemetry, promptOptions,
                 channelVars, instanceVars, appInfo, fanVars, m365rc>>

\* The group lookup answers; getTeamId rejects a group that is no team.
TeamRemoveGroupResponse ==
  /\ command = TeamRemove
  /\ pc = "awaitGroup"
  /\ \E resp \in GroupResponses :
       /\ answers' = Append(answers, resp)
       /\ lookups' = IF resp.shape \in {"list", "groups"}
                       THEN Append(lookups, [key |-> (options.name), ids |-> resp.ids])
                       ELSE lookups
       /\ LET g == GetGroupByDisplayName(options.name, resp)
          IN IF ~g.ok
               THEN Reject(g.raw) /\ UNCHANGED <<trace, resolved>>
             ELSE IF ~g.isTeam
               THEN /\ Reject(Thrown(<<"The specified team does not exist in the Microsoft Teams">>))
                    /\ UNCHANGED <<trace, resolved>>
             ELSE /\ resolved' = g.id
                  /\ trace' = Append(trace, DeleteGroup(g.id))
                  /\ pc' = "awaitDelete"
                  /\ UNCHANGED <<stage, error, exitCode, failedAt>>
  /\ UNCHANGED <<firstRun, inputVars, validationVars, telemetry, promptOptions,
                 channelVars, instanceVars, appInfo, fanVars, m365rc>>

\* The delete request answers.
TeamRemoveDeleteResponse ==
  /\ command = TeamRemove
  /\ pc = "awaitDelete"
  /\ \E resp \in UpstreamFailures \cup {[shape |-> "ok", message |-> <<>>]} :
       /\ answers' = Append(answers, resp)
       /\ IF resp.shape = "ok" THEN Resolve ELSE Reject(resp)
  /\ UNCHANGED <<firstRun, inputVars, validationVars, telemetry, trace, promptOptions,
                 channelVars, resolved, instanceVars, appInfo, fanVars, m365rc, lookups>>

(***************************************************************************)
(* Lookup responses                                                        *)
(***************************************************************************)
Ok == [shape |-> "ok", message |-> <<>>]
ListResponses == UpstreamFailures \cup {[shape |-> "list", ids |-> m] : m \in Matches}
PlainResponses == UpstreamFailures \cup {Ok}

(***************************************************************************)
(* aad app get                                                             *)
(***************************************************************************)
AppLookup(opts) ==
  Request("GET",
          IF Truthy(opts, "appId")
            THEN <<"applications?$filter=appId eq ", opts.appId>>
            ELSE <<"applications?$filter=displayName eq ", opts.name>>)
AppDetail(id) == Request("GET", <<"applications/", id>>)

\* getAppObjectId once the lookup has answered with a list of matches.
GetAppObjectId(opts, ids) ==
  IF Len(ids) = 1 THEN [ok |-> TRUE, id |-> ids[1]]
  ELSE IF Len(ids) = 0
    THEN [ok |-> FALSE,
          raw |-> Thrown(<<"No Azure AD application registration with ",
                           IF Truthy(opts, "appId") THEN "ID " ELSE "name ",
                           IF Truthy(opts, "appId") THEN opts.appId ELSE opts.name,
                           " found">>)]
  ELSE [ok |-> FALSE,
        raw |-> Thrown(<<"Multiple Azure AD application registration with name ",
                         opts.name,
                         " found. Please disambiguate (app object IDs): ">>
                        \o JoinWith(ids, ", "))]

\* commandAction up to its first request.
AppGetStart ==
  /\ command = AppGet
  /\ stage = "RunAction"
  /\ pc = "start"
  /\ IF Truthy(options, "objectId")
       THEN /\ resolved' = options.objectId
            /\ trace' = Append(trace, AppDetail(options.objectId))
            /\ pc' = "awaitInfo"
       ELSE /\ trace' = Append(trace, AppLookup(options))
            /\ pc' = "awaitLookup"
            /\ UNCHANGED resolved
  /\ UNCHANGED <<historyVars, inputVars, stage, validationVars, telemetry, promptOptions,
                 channelVars, error, exitCode, failedAt, instanceVars, appInfo, fanVars, m365rc, lookups>>

\* The lookup by appId or name answers.
AppGetLookupResponse ==
  /\ command = AppGet
  /\ pc = "awaitLookup"
  /\ \E resp \in ListResponses :
       /\ answers' = Append(answers, resp)
       /\ lookups' = IF resp.shape \in {"list", "groups"}
                       THEN Append(lookups, [key |-> (IF Truthy(options, "appId") THEN options.appId ELSE options.name), ids |-> resp.ids])
                       ELSE lookups
       /\ IF resp.shape # "list"
            THEN Reject(resp) /\ UNCHANGED <<trace, resolved>>
            ELSE LET r == GetAppObjectId(options, resp.ids)
                 IN IF r.ok
                      THEN /\ resolved' = r.id
                           /\ trace' = Append(trace, AppDetail(r.id))
                           /\ pc' = "awaitInfo"
                           /\ UNCHANGED <<stage, error, exitCode, failedAt>>
                      ELSE Reject(r.raw) /\ UNCHANGED <<trace, resolved>>
  /\ UNCHANGED <<firstRun, inputVars, validationVars, telemetry, promptOptions,
                 channelVars, instanceVars, appInfo, fanVars, m365rc>>

FilePath == ".m365rc.json"

\* The record saveAppInfo appends for an app.
AppRecord(info) == [appId |-> info.appId, name |-> info.displayName]

\* saveAppInfo of `aad app get`: the file and the diagnostics it leaves, and
\* whether it threw.  readThrows and writeThrows are what the file system does.
\* A saveAppInfo that starts from an empty file when it cannot read the one
\* that exists.
AppGetSaveAppInfoOverwriting(opts, info, file, readThrows, writeThrows) ==
  IF ~Truthy(opts, "save")
    THEN [file |-> file, said |-> <<>>, threw |-> FALSE]
    ELSE [file |-> [kind |-> "apps", apps |-> <<AppRecord(info)>>],
          said |-> <<>>, threw |-> FALSE]

AppGetSaveAppInfo(opts, info, file, readThrows, writeThrows) ==
  LET said == (IF Truthy(opts, "verbose")
                 THEN << <<"Saving Azure AD app registration information to the ",
                           FilePath, " file...">> >>
                 ELSE <<>>)
              \o (IF file.kind # "absent" /\ Truthy(opts, "debug")
                    THEN << <<"Reading existing ", FilePath, "...">> >>
                    ELSE <<>>)
      readFailed == file.kind # "absent" /\ (readThrows \/ file.kind = "garbage")
      apps == IF file.kind = "apps" THEN file.apps ELSE <<>>
      known == \E i \in 1..Len(apps) : apps[i].appId = info.appId
  IN IF ~Truthy(opts, "save")
       THEN [file |-> file, said |-> <<>>, threw |-> FALSE]
     ELSE IF readFailed
       THEN [file |-> file, threw |-> FALSE,
             said |-> Append(said, <<"Error reading ", FilePath,
                                     ". Please add app info to ", FilePath, " manually.">>)]
     ELSE IF file.kind = "null"
       THEN [file |-> file, said |-> said, threw |-> TRUE]
     ELSE IF known
       THEN [file |-> file, said |-> said, threw |-> FALSE]
     ELSE IF writeThrows
       THEN [file |-> file, threw |-> FALSE,
             said |-> Append(said, <<"Error writing ", FilePath,
                                     ". Please add app info to ", FilePath, " manually.">>)]
     ELSE [file |-> [kind |-> "apps", apps |-> Append(apps, AppRecord(info))],
           said |-> said, threw |-> FALSE]

TypeErrorOfNull == Thrown(<<"Cannot read properties of null (reading 'apps')">>)

AppInfos(id) ==
  {[id |-> id, appId |-> a, displayName |-> "First app"] : a \in {"app1", "app3"}}

\* getAppInfo answers; saveAppInfo and logger.log follow without suspending.
AppGetInfoResponse ==
  /\ command = AppGet
  /\ pc = "awaitInfo"
  /\ \E resp \in PlainResponses, readThrows \in BOOLEAN, writeThrows \in BOOLEAN :
       IF resp.shape # "ok"
         THEN /\ Reject(resp)
              /\ answers' = Append(answers, resp)
              /\ UNCHANGED <<log, stderr, m365rc>>
         ELSE \E info \in AppInfos(resolved) :
                LET r == AppGetSaveAppInfo(options, info, m365rc, readThrows, writeThrows)
                IN /\ answers' = Append(answers, [shape |-> "ok", info |-> info,
                                                  readThrows |-> readThrows,
                                                  writeThrows |-> writeThrows])
                   /\ m365rc' = r.file
                   /\ stderr' = stderr \o r.said
                   /\ IF r.threw
                        THEN Reject(TypeErrorOfNull) /\ UNCHANGED log
                        ELSE Resolve /\ log' = Append(log, info)
  /\ UNCHANGED <<firstRun, inputVars, validationVars, telemetry, trace, promptOptions,
                 resolved, instanceVars, appInfo, fanVars, lookups>>

(***************************************************************************)
(* aad sp get                                                              *)
(***************************************************************************)
SpLookup(opts) ==
  Request("GET",
          IF Truthy(opts, "displayName")
            THEN <<"servicePrincipals?$filter=displayName eq ", opts.displayName>>
          ELSE IF Truthy(opts, "appId")
            THEN <<"servicePrincipals?$filter=appId eq ", opts.appId>>
          ELSE <<"servicePrincipals?$filter=">>)
SpDetail(id) == Request("GET", <<"servicePrincipals/", id>>)

\* A getSpId that takes the first of several matches.
GetSpIdFirstMatch(opts, ids) ==
  IF Len(ids) = 0
    THEN [ok |-> FALSE, raw |-> Thrown(<<"The specified Azure AD app does not exist">>)]
    ELSE [ok |-> TRUE, id |-> ids[1]]

\* getSpId once the lookup has answered with a list of matches.
GetSpId(opts, ids) ==
  IF Len(ids) = 0
    THEN [ok |-> FALSE, raw |-> Thrown(<<"The specified Azure AD app does not exist">>)]
  ELSE IF Len(ids) > 1
    THEN [ok |-> FALSE,
          raw |-> Thrown(<<"Multiple Azure AD apps with name ", Get(opts, "displayName"),
                           " found: ">> \o JoinWith(ids, ","))]
  ELSE [ok |-> TRUE, id |-> ids[1]]

SpGetStart ==
  /\ command = SpGet
  /\ stage = "RunAction"
  /\ pc = "start"
  /\ IF Truthy(options, "objectId")
       THEN /\ resolved' = options.objectId
            /\ trace' = Append(trace, SpDetail(options.objectId))
            /\ pc' = "awaitInfo"
       ELSE /\ trace' = Append(trace, SpLookup(options))
            /\ pc' = "awaitLookup"
            /\ UNCHANGED resolved
  /\ stderr' = IF Truthy(options, "verbose")
                 THEN Append(stderr, <<"Retrieving service principal information...">>)
                 ELSE stderr
  /\ UNCHANGED <<historyVars, inputVars, stage, validationVars, telemetry, promptOptions,
                 log, error, exitCode, failedAt, instanceVars, appInfo, fanVars, m365rc, lookups>>

SpGetLookupResponse ==
  /\ command = SpGet
  /\ pc = "awaitLookup"
  /\ \E resp \in ListResponses :
       /\ answers' = Append(answers, resp)
       /\ lookups' = IF resp.shape \in {"list", "groups"}
                       THEN Append(lookups, [key |-> (IF Truthy(options, "displayName") THEN options.displayName ELSE Get(options, "appId")), ids |-> resp.ids])
                       ELSE lookups
       /\ IF resp.shape # "list"
            THEN Reject(resp) /\ UNCHANGED <<trace, resolved>>
            ELSE LET r == GetSpId(options, resp.ids)
                 IN IF r.ok
                      THEN /\ resolved' = r.id
                           /\ trace' = Append(trace, SpDetail(r.id))
                           /\ pc' = "awaitInfo"
                           /\ UNCHANGED <<stage, error, exitCode, failedAt>>
                      ELSE Reject(r.raw) /\ UNCHANGED <<trace, resolved>>
  /\ UNCHANGED <<firstRun, inputVars, validationVars, telemetry, promptOptions,
                 channelVars, instanceVars, appInfo, fanVars, m365rc>>

SpGetInfoResponse ==
  /\ command = SpGet
  /\ pc = "awaitInfo"
  /\ \E resp \in PlainResponses :
       /\ answers' = Append(answers, resp)
       /\ IF resp.shape # "ok"
         THEN Reject(resp) /\ UNCHANGED log
         ELSE Resolve /\ log' = Append(log, [id |-> resolved])
  /\ UNCHANGED <<firstRun, inputVars, validationVars, telemetry, trace, promptOptions,
                 stderr, resolved, instanceVars, appInfo, fanVars, m365rc, lookups>>

(***************************************************************************)
(* teams channel get                                                       *)
(***************************************************************************)
ChannelLookup(team, name) ==
  Request("GET", <<"teams/", team, "/channels?$filter=displayName eq ", name>>)
ChannelDetail(team, channel) == Request("GET", <<"teams/", team, "/channels/", channel>>)
PrimaryChannel(team) == Request("GET", <<"teams/", team, "/primaryChannel">>)

ChannelMain(opts, team, channel) ==
  IF Truthy(opts, "primary") THEN PrimaryChannel(team) ELSE ChannelDetail(team, channel)

\* A lookup that refuses to pick one of several channels of the same name.
GetChannelIdUnambiguous(ids) ==
  IF Len(ids) = 1
    THEN [ok |-> TRUE, id |-> ids[1]]
    ELSE [ok |-> FALSE,
          raw |-> Thrown(<<"The specified channel does not exist in the Microsoft Teams team">>)]

\* getChannelId once the lookup has answered with a list of matches.
GetChannelId(ids) ==
  IF Len(ids) = 0
    THEN [ok |-> FALSE,
          raw |-> Thrown(<<"The specified channel does not exist in the Microsoft Teams team">>)]
    ELSE [ok |-> TRUE, id |-> ids[1]]

\* commandAction from the moment the team is known to its next request.
ChannelGetWithTeam(team) ==
  /\ teamId' = team
  /\ IF Truthy(options, "channelId")
       THEN /\ resolved' = options.channelId
            /\ trace' = Append(trace, ChannelMain(options, team, options.channelId))
            /\ pc' = "awaitInfo"
     ELSE IF Truthy(options, "primary")
       THEN /\ resolved' = ""
            /\ trace' = Append(trace, ChannelMain(options, team, ""))
            /\ pc' = "awaitInfo"
     ELSE /\ trace' = Append(trace, ChannelLookup(team, options.channelName))
          /\ pc' = "awaitLookup"
          /\ UNCHANGED resolved

ChannelGetStart ==
  /\ command = ChannelGet
  /\ stage = "RunAction"
  /\ pc = "start"
  /\ IF Truthy(options, "teamId")
       THEN ChannelGetWithTeam(options.teamId)
       ELSE /\ trace' = Append(trace, GroupsByName(options.teamName))
            /\ pc' = "awaitGroup"
            /\ UNCHANGED <<resolved, teamId>>
  /\ UNCHANGED <<historyVars, inputVars, stage, validationVars, telemetry, promptOptions,
                 channelVars, error, exitCode, failedAt, manifest, appName, appPermissions,
                 appInfo, fanVars, m365rc, lookups>>

ChannelGetGroupResponse ==
  /\ command = ChannelGet
  /\ pc = "awaitGroup"
  /\ \E resp \in GroupResponses :
       /\ answers' = Append(answers, resp)
       /\ lookups' = IF resp.shape \in {"list", "groups"}
                       THEN Append(lookups, [key |-> (options.teamName), ids |-> resp.ids])
                       ELSE lookups
       /\ LET g == GetGroupByDisplayName(options.teamName, resp)
          IN IF ~g.ok
               THEN Reject(g.raw) /\ UNCHANGED <<trace, resolved, teamId>>
             ELSE IF ~g.isTeam
               THEN /\ Reject(Thrown(<<"The specified team does not exist in the Microsoft Teams">>))
                    /\ UNCHANGED <<trace, resolved, teamId>>
             ELSE ChannelGetWithTeam(g.id) /\ UNCHANGED <<stage, error, exitCode, failedAt>>
  /\ UNCHANGED <<firstRun, inputVars, validationVars, telemetry, promptOptions,
                 channelVars, manifest, appName, appPermissions, appInfo, fanVars,
                 m365rc>>

ChannelGetLookupResponse ==
  /\ command = ChannelGet
  /\ pc = "awaitLookup"
  /\ \E resp \in ListResponses :
       /\ answers' = Append(answers, resp)
       /\ lookups' = IF resp.shape \in {"list", "groups"}
                       THEN Append(lookups, [key |-> (options.channelName), ids |-> resp.ids])
                       ELSE lookups
       /\ IF resp.shape # "list"
            THEN Reject(resp) /\ UNCHANGED <<trace, resolved>>
            ELSE LET r == GetChannelId(resp.ids)
                 IN IF r.ok
                      THEN /\ resolved' = r.id
                           /\ trace' = Append(trace, ChannelMain(options, teamId, r.id))
                           /\ pc' = "awaitInfo"
                           /\ UNCHANGED <<stage, error, exitCode, failedAt>>
                      ELSE Reject(r.raw) /\ UNCHANGED <<trace, resolved>>
  /\ UNCHANGED <<firstRun, inputVars, validationVars, telemetry, promptOptions,
                 channelVars, instanceVars, appInfo, fanVars, m365rc>>

ChannelGetInfoResponse ==
  /\ command = ChannelGet
  /\ pc = "awaitInfo"
  /\ \E resp \in PlainResponses :
       /\ answers' = Append(answers, resp)
       /\ IF resp.shape # "ok"
         THEN Reject(resp) /\ UNCHANGED log
         ELSE Resolve /\ log' = Append(log, [id |-> resolved])
  /\ UNCHANGED <<firstRun, inputVars, validationVars, telemetry, trace, promptOptions,
                 stderr, resolved, instanceVars, appInfo, fanVars, m365rc, lookups>>

(***************************************************************************)
(* teams channel set                                                       *)
(***************************************************************************)
mapRequestBody(opts) ==
  [displayName |-> IF Truthy(opts, "newChannelName") THEN opts.newChannelName ELSE Undef,
   description |-> IF Truthy(opts, "description") THEN opts.description ELSE Undef]

ChannelPatch(opts, channelId) ==
  [type |-> "request", method |-> "PATCH",
   url |-> <<"teams/", opts.teamId, "/channels/", channelId>>,
   data |-> mapRequestBody(opts)]

\* res.value[0] of the answer to the lookup, and the throw when there is none.
ChannelItem(ids) ==
  IF Len(ids) = 0
    THEN [ok |-> FALSE,
          raw |-> Thrown(<<"The specified channel does not exist in the Microsoft Teams team">>)]
    ELSE [ok |-> TRUE, id |-> ids[1]]

ChannelSetStart ==
  /\ command = ChannelSet
  /\ stage = "RunAction"
  /\ pc = "start"
  /\ trace' = Append(trace, ChannelLookup(options.teamId, options.channelName))
  /\ pc' = "awaitLookup"
  /\ UNCHANGED <<historyVars, inputVars, stage, validationVars, telemetry, promptOptions,
                 channelVars, error, exitCode, failedAt, resolved, instanceVars, appInfo,
                 fanVars, m365rc, lookups>>

ChannelSetLookupResponse ==
  /\ command = ChannelSet
  /\ pc = "awaitLookup"
  /\ \E resp \in ListResponses :
       /\ answers' = Append(answers, resp)
       /\ lookups' = IF resp.shape = "list"
                       THEN Append(lookups, [key |-> (options.channelName), ids |-> resp.ids])
                       ELSE lookups
       /\ IF resp.shape # "list"
            THEN Reject(resp) /\ UNCHANGED <<trace, resolved>>
            ELSE LET channelItem == ChannelItem(resp.ids)
                 IN IF channelItem.ok
                      THEN /\ resolved' = channelItem.id
                           /\ trace' = Append(trace, ChannelPatch(options, channelItem.id))
                           /\ pc' = "awaitInfo"
                           /\ UNCHANGED <<stage, error, exitCode, failedAt>>
                      ELSE Reject(channelItem.raw) /\ UNCHANGED <<trace, resolved>>
  /\ UNCHANGED <<firstRun, inputVars, validationVars, telemetry, promptOptions,
                 channelVars, instanceVars, appInfo, fanVars, m365rc>>

ChannelSetPatchResponse ==
  /\ command = ChannelSet
  /\ pc = "awaitInfo"
  /\ \E resp \in PlainResponses :
       /\ answers' = Append(answers, resp)
       /\ IF resp.shape # "ok" THEN Reject(resp) ELSE Resolve
  /\ UNCHANGED <<firstRun, inputVars, validationVars, telemetry, trace, promptOptions,
                 channelVars, resolved, instanceVars, appInfo, fanVars, m365rc, lookups>>

(***************************************************************************)
(* spo feature list                                                        *)
(***************************************************************************)
FeatureScope(opts) == IF Truthy(opts, "scope") THEN opts.scope ELSE "Web"
FeaturesRequest(opts) ==
  Request("GET", <<opts.url, "/_api/", FeatureScope(opts), "/Features">>)

FeatureListStart ==
  /\ command = FeatureList
  /\ stage = "RunAction"
  /\ pc = "start"
  /\ trace' = Append(trace, FeaturesRequest(options))
  /\ pc' = "awaitInfo"
  /\ UNCHANGED <<historyVars, inputVars, stage, validationVars, telemetry, promptOptions,
                 channelVars, error, exitCode, failedAt, resolved, instanceVars, appInfo,
                 fanVars, m365rc, lookups>>

\* As FeatureListResponse, but a verbose run also writes the empty list to the
\* result channel.
FeatureListResponseChatty ==
  /\ command = FeatureList
  /\ pc = "awaitInfo"
  /\ \E resp \in UpstreamFailures \cup {[shape |-> "list", ids |-> m] : m \in Matches} :
       /\ answers' = Append(answers, resp)
       /\ IF resp.shape # "list"
            THEN Reject(resp) /\ UNCHANGED <<log, stderr>>
            ELSE /\ Resolve
                 /\ log' = IF Len(resp.ids) > 0 \/ Truthy(options, "verbose")
                           THEN Append(log, resp.ids)
                           ELSE log
                 /\ stderr' = IF Len(resp.ids) = 0 /\ Truthy(options, "verbose")
                                THEN Append(stderr, <<"No activated Features found">>)
                                ELSE stderr
  /\ UNCHANGED <<firstRun, inputVars, validationVars, telemetry, trace, promptOptions,
                 resolved, instanceVars, appInfo, fanVars, m365rc, lookups>>

FeatureListResponse ==
  /\ command = FeatureList
  /\ pc = "awaitInfo"
  /\ \E resp \in UpstreamFailures \cup {[shape |-> "list", ids |-> m] : m \in Matches} :
       /\ answers' = Append(answers, resp)
       /\ IF resp.shape # "list"
            THEN Reject(resp) /\ UNCHANGED <<log, stderr>>
            ELSE /\ Resolve
                 /\ log' = IF Len(resp.ids) > 0 THEN Append(log, resp.ids) ELSE log
                 /\ stderr' = IF Len(resp.ids) = 0 /\ Truthy(options, "verbose")
                                THEN Append(stderr, <<"No activated Features found">>)
                                ELSE stderr
  /\ UNCHANGED <<firstRun, inputVars, validationVars, telemetry, trace, promptOptions,
                 resolved, instanceVars, appInfo, fanVars, m365rc, lookups>>

(***************************************************************************)
(* aad app add: resolving the requested APIs                               *)
(***************************************************************************)
\* The service principals of the directory, as the listing returns them.
ServicePrincipals ==
  << [id |-> "sp1-id", appId |-> "sp1-app",
      servicePrincipalNames |-> << <<"https:", "/", "/", "sp1">> >>,
      oauth2PermissionScopes |-> << [id |-> "s1-id", value |-> "s1"],
                                    [id |-> "s2-id", value |-> "s2"] >>,
      appRoles |-> << [id |-> "r1-id", value |-> "r1"] >>],
     [id |-> "sp2-id", appId |-> "sp2-app",
      servicePrincipalNames |-> << <<"sp2", "/">> >>,
      oauth2PermissionScopes |-> << [id |-> "s3-id", value |-> "s3"] >>,
      appRoles |-> << [id |-> "r2-id", value |-> "r2"] >>] >>

ApisDelegatedChoices ==
  {Undef, "https://sp1/s1", "https://sp1/s1, https://sp1/s2", "https://sp1/s1,sp2/s3",
   "https://spX/s1", "https://sp1/s1,https://sp1/sX"}

ApisApplicationChoices ==
  {Undef, "https://sp1/r1", "https://sp1/r1,sp2/r2", "sp2/rX"}

\* The pieces a value of --apisDelegated or --apisApplication consists of:
\* words, and the characters ',', '/' and ' ' the command looks for.
Pieces(text) ==
  LET sp1 == <<"https:", "/", "/", "sp1", "/">>
  IN CASE text = "https://sp1/s1" -> sp1 \o <<"s1">>
       [] text = "https://sp1/s1, https://sp1/s2" ->
            sp1 \o <<"s1", ",", " ">> \o sp1 \o <<"s2">>
       [] text = "https://sp1/s1,sp2/s3" -> sp1 \o <<"s1", ",", "sp2", "/", "s3">>
       [] text = "https://spX/s1" -> <<"https:", "/", "/", "spX", "/", "s1">>
       [] text = "https://sp1/s1,https://sp1/sX" -> sp1 \o <<"s1", ",">> \o sp1 \o <<"sX">>
       [] text = "https://sp1/r1" -> sp1 \o <<"r1">>
       [] text = "https://sp1/r1,sp2/r2" -> sp1 \o <<"r1", ",", "sp2", "/", "r2">>
       [] text = "sp2/rX" -> <<"sp2", "/", "rX">>
       [] OTHER -> <<text>>

\* String.prototype.indexOf and lastIndexOf, counting from 1; 0 when absent.
IndexOf(seq, x) ==
  IF Contains(seq, x)
    THEN CHOOSE i \in 1..Len(seq) : seq[i] = x /\ \A j \in 1..(i - 1) : seq[j] # x
    ELSE 0

LastIndexOf(seq, x) ==
  IF Contains(seq, x)
    THEN CHOOSE i \in 1..Len(seq) : seq[i] = x /\ \A j \in (i + 1)..Len(seq) : seq[j] # x
    ELSE 0

RECURSIVE Split(_, _)
\* String.prototype.split
Split(seq, sep) ==
  LET i == IndexOf(seq, sep)
  IN IF i = 0 THEN <<seq>>
     ELSE <<SubSeq(seq, 1, i - 1)>> \o Split(SubSeq(seq, i + 1, Len(seq)), sep)

RECURSIVE Trim(_)
\* String.prototype.trim
Trim(seq) ==
  IF seq # <<>> /\ seq[1] = " " THEN Trim(Tail(seq))
  ELSE IF seq # <<>> /\ seq[Len(seq)] = " " THEN Trim(SubSeq(seq, 1, Len(seq) - 1))
  ELSE seq

\* Array.prototype.find over the indices of the items that satisfy the
\* predicate: the first of them, 0 when there is none.
First(found) ==
  IF found = {} THEN 0 ELSE CHOOSE i \in found : \A j \in found : i <= j

\* this.appPermissions.find(oauth => oauth.resourceId === spId), as an index.
FindPermissionsOf(perms, spId) ==
  First({n \in 1..Len(perms) : perms[n].resourceId = spId})

\* this.appPermissions with an entry for spId, pushed if there was none.
WithPermissionsOf(perms, spId) ==
  IF FindPermissionsOf(perms, spId) = 0
    THEN Append(perms, [resourceId |-> spId, resourceAccess |-> <<>>, scope |-> <<>>])
    ELSE perms

\* Two pushes that do not look at what the entry holds.
PushPermissionUnchecked(existingPermission, resourceAccessPermission, oAuth2PermissionValue) ==
  [resourceId |-> existingPermission.resourceId,
   scope |->
     IF resourceAccessPermission.type = "Scope" /\ oAuth2PermissionValue # Undef
       THEN Append(existingPermission.scope, oAuth2PermissionValue)
       ELSE existingPermission.scope,
   resourceAccess |-> Append(existingPermission.resourceAccess, resourceAccessPermission)]

\* The two pushes of updateAppPermissions onto the entry it found or made.
PushPermission(existingPermission, resourceAccessPermission, oAuth2PermissionValue) ==
  [resourceId |-> existingPermission.resourceId,
   scope |->
     IF /\ resourceAccessPermission.type = "Scope"
        /\ oAuth2PermissionValue # Undef
        /\ ~Contains(existingPermission.scope, oAuth2PermissionValue)
       THEN Append(existingPermission.scope, oAuth2PermissionValue)
       ELSE existingPermission.scope,
   resourceAccess |->
     IF \E n \in 1..Len(existingPermission.resourceAccess) :
          existingPermission.resourceAccess[n].id = resourceAccessPermission.id
       THEN existingPermission.resourceAccess
       ELSE Append(existingPermission.resourceAccess, resourceAccessPermission)]

\* this.appPermissions after updateAppPermissions.
updateAppPermissions(perms, spId, resourceAccessPermission, oAuth2PermissionValue) ==
  [n \in 1..Len(WithPermissionsOf(perms, spId)) |->
     IF n = FindPermissionsOf(WithPermissionsOf(perms, spId), spId)
       THEN PushPermission(WithPermissionsOf(perms, spId)[n], resourceAccessPermission,
                           oAuth2PermissionValue)
       ELSE WithPermissionsOf(perms, spId)[n]]

\* api.substr(0, pos) and api.substr(pos + 1), pos being api.lastIndexOf('/').
ServicePrincipalNameOf(api) == SubSeq(api, 1, LastIndexOf(api, "/") - 1)
PermissionNameOf(api) == SubSeq(api, LastIndexOf(api, "/") + 1, Len(api))

\* servicePrincipals.find(sp => its names hold the name, or the name and '/')
FindServicePrincipal(servicePrincipals, servicePrincipalName) ==
  First({n \in 1..Len(servicePrincipals) :
          \/ Contains(servicePrincipals[n].servicePrincipalNames, servicePrincipalName)
          \/ Contains(servicePrincipals[n].servicePrincipalNames,
                      Append(servicePrincipalName, "/"))})

ScopesOfType(servicePrincipal, scopeType) ==
  IF scopeType = "Scope"
    THEN servicePrincipal.oauth2PermissionScopes
    ELSE servicePrincipal.appRoles

\* scopesOfType.find(scope => scope.value === permissionName), as an index.
FindScope(scopesOfType, permissionName) ==
  First({n \in 1..Len(scopesOfType) : <<scopesOfType[n].value>> = permissionName})

\* resolvedApis.find(api => api.resourceAppId === resourceAppId), as an index.
FindApi(resolvedApis, resourceAppId) ==
  First({n \in 1..Len(resolvedApis) : resolvedApis[n].resourceAppId = resourceAppId})

\* resolvedApis with the resource access pushed onto the API of appId, which
\* is pushed first if it is not there.
PushResourceAccess(resolvedApis, appId, resourceAccessPermission) ==
  IF FindApi(resolvedApis, appId) # 0
    THEN [n \in 1..Len(resolvedApis) |->
            IF n = FindApi(resolvedApis, appId)
              THEN [resolvedApis[n] EXCEPT
                      !.resourceAccess = Append(@, resourceAccessPermission)]
              ELSE resolvedApis[n]]
    ELSE Append(resolvedApis,
                [resourceAppId |-> appId, resourceAccess |-> <<resourceAccessPermission>>])

\* What the loop writes to stderr for one API in debug mode.
ResolvingSaid(api, debug) ==
  IF debug
    THEN << <<"Resolving ">> \o api \o <<"...">>,
            <<"Permission name: ">> \o PermissionNameOf(api),
            <<"Service principal name: ">> \o ServicePrincipalNameOf(api) >>
    ELSE <<>>

\* What getRequiredResourceAccessForApis has done when it returns or throws.
Resolution(resolvedApis, perms, said, thrown) ==
  [apis |-> resolvedApis, perms |-> perms, said |-> said, thrown |-> thrown]

RECURSIVE ResolveRequested(_, _, _, _, _, _, _)
\* The forEach of getRequiredResourceAccessForApis over the requested APIs:
\* the resolved APIs, this.appPermissions, the lines written to stderr in
\* debug mode, and the string thrown (<<>> if none).
ResolveRequested(servicePrincipals, requestedApis, scopeType, resolvedApis, perms, said, debug) ==
  IF requestedApis = <<>>
    THEN Resolution(resolvedApis, perms, said, <<>>)
  ELSE IF FindServicePrincipal(servicePrincipals, ServicePrincipalNameOf(requestedApis[1])) = 0
    THEN Resolution(resolvedApis, perms, said \o ResolvingSaid(requestedApis[1], debug),
                    <<"Service principal ">> \o ServicePrincipalNameOf(requestedApis[1])
                      \o <<" not found">>)
  ELSE
    LET servicePrincipal ==
          servicePrincipals[FindServicePrincipal(servicePrincipals,
                                                 ServicePrincipalNameOf(requestedApis[1]))]
    IN IF FindScope(ScopesOfType(servicePrincipal, scopeType),
                    PermissionNameOf(requestedApis[1])) = 0
         THEN Resolution(resolvedApis, perms, said \o ResolvingSaid(requestedApis[1], debug),
                         <<"Permission ">> \o PermissionNameOf(requestedApis[1])
                           \o <<" for service principal ">>
                           \o ServicePrincipalNameOf(requestedApis[1]) \o <<" not found">>)
         ELSE LET permission ==
                    ScopesOfType(servicePrincipal, scopeType)[
                      FindScope(ScopesOfType(servicePrincipal, scopeType),
                                PermissionNameOf(requestedApis[1]))]
              IN ResolveRequested(
                   servicePrincipals, Tail(requestedApis), scopeType,
                   PushResourceAccess(resolvedApis, servicePrincipal.appId,
                                      [id |-> permission.id, type |-> scopeType]),
                   updateAppPermissions(perms, servicePrincipal.id,
                                        [id |-> permission.id, type |-> scopeType],
                                        permission.value),
                   said \o ResolvingSaid(requestedApis[1], debug),
                   debug)

\* apis.split(',').map(a => a.trim())
RequestedApis(apis) ==
  [i \in 1..Len(Split(Pieces(apis), ",")) |-> Trim(Split(Pieces(apis), ",")[i])]

getRequiredResourceAccessForApis(servicePrincipals, apis, scopeType, perms, debug) ==
  IF apis = Undef \/ apis = ""
    THEN Resolution(<<>>, perms, <<>>, <<>>)
    ELSE ResolveRequested(servicePrincipals, RequestedApis(apis), scopeType, <<>>, perms,
                          <<>>, debug)

\* One step of the merge: the resource access of an application API is
\* pushed onto the delegated API of the same resource, or the API is pushed.
MergeApi(resolvedApis, resolvedRequiredResource) ==
  IF FindApi(resolvedApis, resolvedRequiredResource.resourceAppId) = 0
    THEN Append(resolvedApis, resolvedRequiredResource)
    ELSE [n \in 1..Len(resolvedApis) |->
            IF n = FindApi(resolvedApis, resolvedRequiredResource.resourceAppId)
              THEN [resolvedApis[n] EXCEPT
                      !.resourceAccess = @ \o resolvedRequiredResource.resourceAccess]
              ELSE resolvedApis[n]]

RECURSIVE MergeApis(_, _)
\* The merge of the resolved application APIs onto the delegated ones.
MergeApis(resolvedApis, resolvedApplicationApis) ==
  IF resolvedApplicationApis = <<>> THEN resolvedApis
  ELSE MergeApis(MergeApi(resolvedApis, resolvedApplicationApis[1]),
                 Tail(resolvedApplicationApis))

\* app.oauth2PermissionScopes.find(scp => scp.id === res.id)?.value
OAuthValue(app, res) ==
  IF \E n \in 1..Len(app.oauth2PermissionScopes) : app.oauth2PermissionScopes[n].id = res.id
    THEN app.oauth2PermissionScopes[
           First({n \in 1..Len(app.oauth2PermissionScopes) :
                   app.oauth2PermissionScopes[n].id = res.id})].value
    ELSE Undef

RECURSIVE PermissionsOfAccess(_, _, _)
\* The inner forEach of the manifest branch over one API's resource access.
PermissionsOfAccess(app, resourceAccess, perms) ==
  IF resourceAccess = <<>> THEN perms
  ELSE PermissionsOfAccess(
         app, Tail(resourceAccess),
         updateAppPermissions(perms, app.id,
                              [id |-> resourceAccess[1].id, type |-> resourceAccess[1].type],
                              OAuthValue(app, resourceAccess[1])))

\* servicePrincipals.find(sp => sp.appId === resourceAppId), as an index.
FindApp(servicePrincipals, resourceAppId) ==
  First({n \in 1..Len(servicePrincipals) : servicePrincipals[n].appId = resourceAppId})

RECURSIVE PermissionsOfManifest(_, _, _)
\* The forEach of the manifest branch over the manifest's APIs.
PermissionsOfManifest(servicePrincipals, manifestApis, perms) ==
  IF manifestApis = <<>> THEN perms
  ELSE PermissionsOfManifest(
         servicePrincipals, Tail(manifestApis),
         IF FindApp(servicePrincipals, manifestApis[1].resourceAppId) = 0
           THEN perms
           ELSE PermissionsOfAccess(
                  servicePrincipals[FindApp(servicePrincipals, manifestApis[1].resourceAppId)],
                  manifestApis[1].resourceAccess, perms))

\* if (!apisDelegated && !apisApplication && no requiredResourceAccess in the
\* manifest): resolveApis resolves to [] without a request.
NothingToResolve(opts, m) ==
  /\ ~Truthy(opts, "apisDelegated")
  /\ ~Truthy(opts, "apisApplication")
  /\ Len(m.requiredResourceAccess) = 0

\* What resolveApis writes to stderr in verbose mode once the APIs are
\* resolved, and after each of the two calls that resolve the options.
MergedSaid(opts) ==
  IF Truthy(opts, "verbose")
    THEN << <<"Merged delegated and application permissions: ">>,
            <<"App role assignments: ">>,
            <<"OAuth2 permissions: ">> >>
    ELSE <<>>

ResolvedSaid(opts, which) ==
  IF Truthy(opts, "verbose") THEN << <<"Resolved ", which, " permissions: ">> >> ELSE <<>>

\* The branch of resolveApis for APIs given as options, the delegated ones
\* being resolved to d: the application ones are resolved and merged.
ResolveApplication(opts, d, a) ==
  IF a.thrown # <<>>
    THEN Resolution(a.apis, a.perms,
                    d.said \o ResolvedSaid(opts, "delegated")
                      \o a.said,
                    a.thrown)
    ELSE Resolution(MergeApis(d.apis, a.apis), a.perms,
                    d.said \o ResolvedSaid(opts, "delegated")
                      \o a.said
                      \o ResolvedSaid(opts, "application")
                      \o MergedSaid(opts),
                    <<>>)

ResolveOptions(opts, servicePrincipals, d) ==
  IF d.thrown # <<>>
    THEN d
    ELSE ResolveApplication(
           opts, d,
           getRequiredResourceAccessForApis(servicePrincipals, Get(opts, "apisApplication"),
                                            "Role", d.perms, Truthy(opts, "debug")))

\* A resolveApis that resolves with what it has when a name is not found.
ResolveApisLenient(opts, m, servicePrincipals, perms) ==
  [ResolveOptions(
     opts, servicePrincipals,
     getRequiredResourceAccessForApis(servicePrincipals, Get(opts, "apisDelegated"),
                                      "Scope", perms, Truthy(opts, "debug")))
   EXCEPT !.thrown = <<>>]

\* resolveApis once the service principals are listed: the resolved APIs,
\* this.appPermissions, the lines written to stderr, and the string it
\* rejects with (<<>> if it resolves).
ResolveApis(opts, m, servicePrincipals, perms) ==
  IF Truthy(opts, "apisDelegated") \/ Truthy(opts, "apisApplication")
    THEN ResolveOptions(
           opts, servicePrincipals,
           getRequiredResourceAccessForApis(servicePrincipals, Get(opts, "apisDelegated"),
                                            "Scope", perms, Truthy(opts, "debug")))
    ELSE Resolution(m.requiredResourceAccess,
                    PermissionsOfManifest(servicePrincipals, m.requiredResourceAccess, perms),
                    MergedSaid(opts), <<>>)

(***************************************************************************)
(* aad app add: the requests of commandAction                              *)
(***************************************************************************)
ListServicePrincipals ==
  Request("GET", <<"servicePrincipals?$select=appId,appRoles,id,oauth2PermissionScopes,servicePrincipalNames">>)

RECURSIVE AccessIds(_)
AccessIds(resourceAccess) ==
  IF resourceAccess = <<>> THEN <<>>
  ELSE <<resourceAccess[1].id>> \o AccessIds(Tail(resourceAccess))

RECURSIVE ApiIds(_)
ApiIds(apis) ==
  IF apis = <<>> THEN <<>>
  ELSE <<apis[1].resourceAppId>> \o AccessIds(apis[1].resourceAccess) \o ApiIds(Tail(apis))

CreateApplication(displayName, apis) ==
  Request("POST", <<"applications", displayName>> \o ApiIds(apis))
UpdateApplication(id, displayName) ==
  Request("PATCH", <<"applications/", id, " manifest ", displayName>>)
createServicePrincipal(appId) == Request("POST", <<"servicePrincipals", appId>>)
grantOAuth2Permission(appId, resourceId, scopeName) ==
  Request("POST", <<"oauth2PermissionGrants", appId, resourceId>> \o scopeName)
addRoleToServicePrincipal(objectId, resourceId, appRoleId) ==
  Request("POST", <<"servicePrincipals/", objectId, "/appRoleAssignments", resourceId, appRoleId>>)
ConfigureUriRequest(id, uri, scopeName) ==
  Request("PATCH", <<"applications/", id, " identifierUris ", uri, scopeName>>)
createSecret(appObjectId) ==
  Request("POST", <<"applications/", appObjectId, "/addPassword">>)

\* What the service answers to the creation of the app registration and of
\* its service principal.
\* The service names the appId of the app it creates; nothing in the code
\* checks it against the registration file, which may hold it already.
CreatedApp == [appId |-> "app1", id |-> "obj9", created |-> TRUE, secret |-> None]
CreatedServicePrincipal == "sp9-id"
SecretText == "s3cr3t"

\* One admin-consent request in flight: the request, what the service will
\* answer to it, and whether it has answered.
Task(req, fate) == [request |-> req, fate |-> fate, state |-> "inflight"]
Fates == {"ok", "fail"}
TaskFailure(req) == [shape |-> "odata", message |-> <<"upstream refused ">> \o req.url]

RECURSIVE RoleRequests(_, _, _)
\* permission.resourceAccess.filter(access => access.type === "Role").forEach
RoleRequests(spId, resourceId, resourceAccess) ==
  IF resourceAccess = <<>> THEN <<>>
  ELSE (IF resourceAccess[1].type = "Role"
          THEN <<addRoleToServicePrincipal(spId, resourceId, resourceAccess[1].id)>>
          ELSE <<>>)
       \o RoleRequests(spId, resourceId, Tail(resourceAccess))

RECURSIVE GrantRequests(_, _)
\* this.appPermissions.forEach of grantAdminConsent: the requests of the
\* tasks, in the order they are pushed.
GrantRequests(spId, perms) ==
  IF perms = <<>> THEN <<>>
  ELSE LET permission == perms[1]
       IN (IF Len(permission.scope) > 0
             THEN <<grantOAuth2Permission(spId, permission.resourceId,
                                          JoinWith(permission.scope, " "))>>
             ELSE <<>>)
          \o RoleRequests(spId, permission.resourceId, permission.resourceAccess)
          \o GrantRequests(spId, Tail(perms))

RECURSIVE GrantSaid(_)
\* What the same loop writes to stderr in debug mode.
GrantSaid(perms) ==
  IF perms = <<>> THEN <<>>
  ELSE LET permission == perms[1]
           roles == SelectSeq(permission.resourceAccess, LAMBDA access : access.type = "Role")
       IN (IF Len(permission.scope) > 0
             THEN << <<"Admin consent granted for following resource ",
                       permission.resourceId, ", with delegated permissions: ">>
                     \o JoinWith(permission.scope, ",") >>
             ELSE <<>>)
          \o [i \in 1..Len(roles) |->
                <<"Admin consent granted for following resource ", permission.resourceId,
                  ", with application permission: ", roles[i].id>>]
          \o GrantSaid(Tail(perms))

\* A combinator that settles as soon as one of the promises is fulfilled.
PromiseAny(ts) ==
  IF \E i \in 1..Len(ts) : ts[i].state = "fulfilled" THEN "fulfilled"
  ELSE IF \A i \in 1..Len(ts) : ts[i].state = "rejected" THEN "rejected"
  ELSE "pending"

\* Promise.all(tasks): rejected once one of the promises is, fulfilled once
\* all of them are.
PromiseAll(ts) ==
  IF \E i \in 1..Len(ts) : ts[i].state = "rejected" THEN "rejected"
  ELSE IF \A i \in 1..Len(ts) : ts[i].state = "fulfilled" THEN "fulfilled"
  ELSE "pending"

\* A rejection that aborts the requests still in flight.
AbortSiblings(ts) ==
  [i \in 1..Len(ts) |->
     IF ts[i].state = "inflight" THEN [ts[i] EXCEPT !.state = "aborted"] ELSE ts[i]]

\* The sibling promises once Promise.all has rejected: nothing touches them.
SiblingsAfterRejection(ts) == ts

\* An answer that, when it is a refusal, takes back the grants made so far.
SettleRevoking(ts, i) ==
  [k \in 1..Len(ts) |->
     IF k = i THEN [ts[k] EXCEPT !.state = IF ts[k].fate = "ok" THEN "fulfilled" ELSE "rejected"]
     ELSE IF ts[i].fate = "fail" /\ ts[k].state = "fulfilled"
       THEN [ts[k] EXCEPT !.state = "revoked"]
     ELSE ts[k]]

\* The answer of the service to the request of task i.
Settle(ts, i) ==
  [ts EXCEPT ![i].state = IF ts[i].fate = "ok" THEN "fulfilled" ELSE "rejected"]

(***************************************************************************)
(* aad app add: saveAppInfo                                                *)
(***************************************************************************)
AppAddSaveAppInfo(opts, info, name, file, readThrows, writeThrows) ==
  LET said == (IF Truthy(opts, "verbose")
                 THEN << <<"Saving Azure AD app registration information to the ",
                           FilePath, " file...">> >>
                 ELSE <<>>)
              \o (IF file.kind # "absent" /\ Truthy(opts, "debug")
                    THEN << <<"Reading existing ", FilePath, "...">> >>
                    ELSE <<>>)
      readFailed == file.kind # "absent" /\ (readThrows \/ file.kind = "garbage")
      apps == IF file.kind = "apps" THEN file.apps ELSE <<>>
  IN IF ~Truthy(opts, "save")
       THEN [file |-> file, said |-> <<>>, threw |-> FALSE]
     ELSE IF readFailed
       THEN [file |-> file, threw |-> FALSE,
             said |-> Append(said, <<"Error reading ", FilePath,
                                     ". Please add app info to ", FilePath, " manually.">>)]
     ELSE IF file.kind = "null"
       THEN [file |-> file, said |-> said, threw |-> TRUE]
     ELSE IF writeThrows
       THEN [file |-> file, threw |-> FALSE,
             said |-> Append(said, <<"Error writing ", FilePath,
                                     ". Please add app info to ", FilePath, " manually.">>)]
     ELSE [file |-> [kind |-> "apps",
                     apps |-> Append(apps, [appId |-> info.appId, name |-> name])],
           said |-> said, threw |-> FALSE]

(***************************************************************************)
(* aad app add: commandAction                                              *)
(***************************************************************************)
\* The calls commandAction awaits once the app registration exists.
Steps ==
  <<"updateAppFromManifest", "grantAdminConsent", "configureUri", "configureSecret",
    "saveAppInfo">>

\* Whether a step resolves at once to the appInfo it was given.
Skips(step, opts, perms, info) ==
  CASE step = "updateAppFromManifest" -> ~Truthy(opts, "manifest")
    [] step = "grantAdminConsent" -> ~Truthy(opts, "grantAdminConsent") \/ Len(perms) = 0
    [] step = "configureUri" -> ~Truthy(opts, "uri")
    [] step = "configureSecret" -> ~Truthy(opts, "withSecret") \/ info.secret # None
    [] OTHER -> FALSE

RECURSIVE FirstStep(_, _, _, _)
\* The first step from step n on that does not resolve at once.
FirstStep(n, opts, perms, info) ==
  IF Skips(Steps[n], opts, perms, info) THEN FirstStep(n + 1, opts, perms, info) ELSE n

Result(info) ==
  [appId |-> info.appId, objectId |-> info.id, tenantId |-> "tenant", secret |-> info.secret]

\* Whether commandAction, going on from step n, reaches saveAppInfo and the
\* file at once.
Saving(n, info) ==
  Steps[FirstStep(n, options, appPermissions, info)] = "saveAppInfo" /\ Truthy(options, "save")

\* What the invocation took from an answer of the service and, where it went
\* on to the file, from the file system.
Answer(resp, n, info, readThrows, writeThrows) ==
  [resp |-> resp,
   fs |-> IF resp.shape = "ok" /\ Saving(n, info) THEN <<readThrows, writeThrows>> ELSE <<>>]

\* commandAction from step n on, up to its next request or its end.
Continue(n, info, readThrows, writeThrows) ==
  LET step == Steps[FirstStep(n, options, appPermissions, info)]
      verbose == Truthy(options, "verbose")
      saved == AppAddSaveAppInfo(options, info, appName, m365rc, readThrows, writeThrows)
  IN IF step = "updateAppFromManifest"
       THEN IF JsonParse(options.manifest).value.kind = "null"
              THEN /\ Reject(Thrown(<<"TypeError: Cannot convert undefined or null to object">>))
                   /\ UNCHANGED <<trace, log, stderr, m365rc>>
              ELSE /\ trace' = Append(trace, UpdateApplication(info.id, JsonParse(options.manifest).value.name))
                   /\ pc' = "awaitManifest"
                   /\ UNCHANGED <<stage, error, exitCode, failedAt, log, stderr, m365rc>>
     ELSE IF step = "grantAdminConsent"
       THEN /\ trace' = Append(trace, createServicePrincipal(info.appId))
            /\ pc' = "awaitServicePrincipal"
            /\ UNCHANGED <<stage, error, exitCode, failedAt, log, stderr, m365rc>>
     ELSE IF step = "configureUri"
       THEN /\ trace' = Append(trace, ConfigureUriRequest(info.id, options.uri, Get(options, "scopeName")))
            /\ stderr' = IF verbose
                           THEN Append(stderr, <<"Configuring Azure AD application ID URI...">>)
                           ELSE stderr
            /\ pc' = "awaitUri"
            /\ UNCHANGED <<stage, error, exitCode, failedAt, log, m365rc>>
     ELSE IF step = "configureSecret"
       THEN /\ trace' = Append(trace, createSecret(info.id))
            /\ stderr' = IF verbose
                           THEN Append(stderr, <<"Configure Azure AD app secret...">>)
                           ELSE stderr
            /\ pc' = "awaitSecret"
            /\ UNCHANGED <<stage, error, exitCode, failedAt, log, m365rc>>
     ELSE /\ m365rc' = saved.file
          /\ stderr' = stderr \o saved.said
          /\ UNCHANGED trace
          /\ IF saved.threw
               THEN Reject(TypeErrorOfNull) /\ UNCHANGED log
               ELSE Resolve /\ log' = Append(log, Result(info))

\* createAppRegistration up to its request; `said` is what the caller wrote
\* to stderr before it.
CreateAppRegistration(apis, said) ==
  LET displayName ==
        IF Truthy(options, "name") THEN options.name
        ELSE IF manifest.kind = "object" THEN manifest.name
        ELSE Undef
  IN /\ appName' = displayName
     /\ trace' = Append(trace, CreateApplication(displayName, apis))
     /\ stderr' = stderr \o said
                    \o (IF Truthy(options, "verbose")
                          THEN << <<"Creating Azure AD app registration...">> >>
                          ELSE <<>>)
     /\ pc' = "awaitCreate"
     /\ UNCHANGED <<stage, error, exitCode, failedAt, log, m365rc>>

\* commandAction up to its first request: resolveApis lists the service
\* principals, or resolves to [] and createAppRegistration follows.
AppAddStart ==
  /\ command = AppAdd
  /\ stage = "RunAction"
  /\ pc = "start"
  /\ IF NothingToResolve(options, manifest)
       THEN CreateAppRegistration(<<>>, <<>>)
       ELSE /\ trace' = Append(trace, ListServicePrincipals)
            /\ stderr' = IF Truthy(options, "verbose")
                           THEN Append(stderr, <<"Resolving requested APIs...">>)
                           ELSE stderr
            /\ pc' = "awaitServicePrincipals"
            /\ UNCHANGED <<stage, error, exitCode, failedAt, log, m365rc, appName>>
  /\ UNCHANGED <<historyVars, inputVars, validationVars, telemetry, promptOptions, resolved, teamId,
                 manifest, appPermissions, appInfo, fanVars, lookups>>

\* The listing of the service principals answers: resolveApis resolves the
\* APIs against it, and createAppRegistration follows.
AppAddServicePrincipalsResponse ==
  /\ command = AppAdd
  /\ pc = "awaitServicePrincipals"
  /\ \E resp \in UpstreamFailures \cup {[shape |-> "list", items |-> ServicePrincipals]} :
       /\ answers' = Append(answers, [resp |-> resp, fs |-> <<>>])
       /\ IF resp.shape # "list"
            THEN /\ Reject(resp)
                 /\ UNCHANGED <<trace, log, stderr, m365rc, appName, appPermissions>>
            ELSE LET r == ResolveApis(options, manifest, resp.items, appPermissions)
                 IN /\ appPermissions' = r.perms
                    /\ IF r.thrown # <<>>
                         THEN /\ Reject(Thrown(r.thrown))
                              /\ stderr' = stderr \o r.said
                              /\ UNCHANGED <<trace, log, m365rc, appName>>
                         ELSE CreateAppRegistration(r.apis, r.said)
  /\ UNCHANGED <<firstRun, inputVars, validationVars, telemetry, promptOptions, resolved, teamId,
                 manifest, appInfo, fanVars, lookups>>

\* The creation of the app registration answers.
AppAddCreateResponse ==
  /\ command = AppAdd
  /\ pc = "awaitCreate"
  /\ \E resp \in PlainResponses, readThrows \in BOOLEAN, writeThrows \in BOOLEAN :
       /\ answers' = Append(answers, Answer(resp, 1, CreatedApp, readThrows, writeThrows))
       /\ IF resp.shape # "ok"
            THEN Reject(resp) /\ UNCHANGED <<trace, log, stderr, m365rc, appInfo>>
            ELSE /\ appInfo' = CreatedApp
                 /\ Continue(1, CreatedApp, readThrows, writeThrows)
  /\ UNCHANGED <<firstRun, inputVars, validationVars, telemetry, promptOptions, resolved,
                 instanceVars, fanVars, lookups>>

\* The update of the app from the manifest answers; the manifests here have
\* no pre-authorized applications and no secrets, so nothing else is sent.
AppAddManifestResponse ==
  /\ command = AppAdd
  /\ pc = "awaitManifest"
  /\ \E resp \in PlainResponses, readThrows \in BOOLEAN, writeThrows \in BOOLEAN :
       /\ answers' = Append(answers, Answer(resp, 2, appInfo, readThrows, writeThrows))
       /\ IF resp.shape # "ok"
            THEN Reject(resp) /\ UNCHANGED <<trace, log, stderr, m365rc>>
            ELSE Continue(2, appInfo, readThrows, writeThrows)
  /\ UNCHANGED <<firstRun, inputVars, validationVars, telemetry, promptOptions, resolved,
                 instanceVars, appInfo, fanVars, lookups>>

\* The creation of the service principal answers: every grant is sent, and
\* Promise.all waits for them.
AppAddServicePrincipalResponse ==
  /\ command = AppAdd
  /\ pc = "awaitServicePrincipal"
  /\ \E resp \in PlainResponses, readThrows \in BOOLEAN, writeThrows \in BOOLEAN :
       IF resp.shape # "ok"
         THEN /\ Reject(resp)
              /\ answers' = Append(answers, [resp |-> resp, fs |-> <<>>, fates |-> <<>>])
              /\ UNCHANGED <<trace, log, stderr, m365rc, tasks>>
         ELSE LET requests == GrantRequests(CreatedServicePrincipal, appPermissions)
                  said == (IF Truthy(options, "debug")
                             THEN << <<"Service principal created, returned object id: ",
                                       CreatedServicePrincipal>> >>
                                  \o GrantSaid(appPermissions)
                             ELSE <<>>)
              IN IF requests = <<>>
                   THEN /\ tasks' = <<>>
                        /\ answers' = Append(answers,
                                              [resp |-> resp, fates |-> <<>>,
                                               fs |-> IF Saving(3, appInfo)
                                                        THEN <<readThrows, writeThrows>>
                                                        ELSE <<>>])
                        /\ Continue(3, appInfo, readThrows, writeThrows)
                   ELSE \E fates \in [1..Len(requests) -> Fates] :
                          /\ tasks' = [i \in 1..Len(requests) |-> Task(requests[i], fates[i])]
                          /\ answers' = Append(answers,
                                                [resp |-> resp, fates |-> fates, fs |-> <<>>])
                          /\ trace' = trace \o requests
                          /\ stderr' = stderr \o said
                          /\ pc' = "awaitAll"
                          /\ UNCHANGED <<stage, error, exitCode, failedAt, log, m365rc>>
  /\ UNCHANGED <<firstRun, inputVars, validationVars, telemetry, promptOptions, resolved,
                 instanceVars, appInfo, settled, lookups>>

\* The service answers the request of task i. While commandAction awaits
\* Promise.all, the first rejection rejects it and the last fulfilment lets
\* it go on; afterwards the answer changes nothing in the invocation.
TaskSettle(i) ==
  /\ command = AppAdd
  /\ i \in 1..Len(tasks)
  /\ tasks[i].state = "inflight"
  /\ settled' = Append(settled, i)
  /\ \E readThrows \in BOOLEAN, writeThrows \in BOOLEAN :
       LET ts == Settle(tasks, i)
           all == PromiseAll(ts)
       IN IF pc = "awaitAll" /\ all = "rejected"
            THEN /\ tasks' = SiblingsAfterRejection(ts)
                 /\ answers' = Append(answers, [task |-> i, fs |-> <<>>])
                 /\ Reject(TaskFailure(tasks[i].request))
                 /\ UNCHANGED <<trace, log, stderr, m365rc>>
          ELSE IF pc = "awaitAll" /\ all = "fulfilled"
            THEN /\ tasks' = ts
                 /\ answers' = Append(answers,
                                       [task |-> i,
                                        fs |-> IF Saving(3, appInfo)
                                                 THEN <<readThrows, writeThrows>>
                                                 ELSE <<>>])
                 /\ Continue(3, appInfo, readThrows, writeThrows)
          ELSE /\ tasks' = ts
               /\ answers' = IF pc = "awaitAll"
                               THEN Append(answers, [task |-> i, fs |-> <<>>])
                               ELSE answers
               /\ UNCHANGED <<pc, stage, error, exitCode, failedAt, trace, log, stderr, m365rc>>
  /\ UNCHANGED <<firstRun, inputVars, validationVars, telemetry, promptOptions, resolved,
                 instanceVars, appInfo, lookups>>

\* The update of the application ID URI answers.
AppAddUriResponse ==
  /\ command = AppAdd
  /\ pc = "awaitUri"
  /\ \E resp \in PlainResponses, readThrows \in BOOLEAN, writeThrows \in BOOLEAN :
       /\ answers' = Append(answers, Answer(resp, 4, appInfo, readThrows, writeThrows))
       /\ IF resp.shape # "ok"
            THEN Reject(resp) /\ UNCHANGED <<trace, log, stderr, m365rc>>
            ELSE Continue(4, appInfo, readThrows, writeThrows)
  /\ UNCHANGED <<firstRun, inputVars, validationVars, telemetry, promptOptions, resolved,
                 instanceVars, appInfo, fanVars, lookups>>

\* The creation of the secret answers; saveAppInfo and logger.log follow.
AppAddSecretResponse ==
  /\ command = AppAdd
  /\ pc = "awaitSecret"
  /\ \E resp \in PlainResponses, readThrows \in BOOLEAN, writeThrows \in BOOLEAN :
       /\ answers' = Append(answers, Answer(resp, 5, [appInfo EXCEPT !.secret = SecretText],
                                            readThrows, writeThrows))
       /\ IF resp.shape # "ok"
            THEN Reject(resp) /\ UNCHANGED <<trace, log, stderr, m365rc, appInfo>>
            ELSE LET info == [appInfo EXCEPT !.secret = SecretText]
                 IN /\ appInfo' = info
                    /\ Continue(5, info, readThrows, writeThrows)
  /\ UNCHANGED <<firstRun, inputVars, validationVars, telemetry, promptOptions, resolved,
                 instanceVars, fanVars, lookups>>

(***************************************************************************)
(* Properties                                                              *)
(***************************************************************************)
Supplied(names) == {n \in names : options[n] # Undef}
ExactlyOne(names) == Cardinality(Supplied(names)) = 1

\* Every option set the command declares has exactly one member supplied.
DeclaredSetsHold ==
  CASE command = AppGet -> ExactlyOne({"appId", "objectId", "name"})
    [] command = SpGet -> ExactlyOne({"appId", "displayName", "objectId"})
    [] command = ChannelGet ->
         /\ ExactlyOne({"teamId", "teamName"})
         /\ ExactlyOne({"channelId", "channelName", "primary"})
    [] OTHER -> TRUE

DeclaredSets ==
  CASE command = AppGet -> {{"appId", "objectId", "name"}}
    [] command = SpGet -> {{"appId", "displayName", "objectId"}}
    [] command = ChannelGet ->
         {{"teamId", "teamName"}, {"channelId", "channelName", "primary"}}
    [] OTHER -> {}

Enforced == stage \notin {"Parse", "EnforceOptionSets"}

\* The message names the members of the set, in the wording of its failure.
NamesSet(msg, set) ==
  /\ \A n \in set : Contains(msg, n)
  /\ IF Supplied(set) = {}
       THEN msg[1] = "Specify one of: "
       ELSE msg[1] = "Specify one of " /\ msg[Len(msg)] = " but not multiple"

\* C1: once option-set enforcement has run, it has passed if and only if
\* every option set the command declares has exactly one member supplied,
\* each set counted on its own; when it failed, the message names the members
\* of a declared set that has none or several members supplied.
C1_OptionSetsExactlyOne ==
  Enforced =>
    /\ (failedAt = "EnforceOptionSets") <=> ~DeclaredSetsHold
    /\ failedAt = "EnforceOptionSets" =>
         \E set \in DeclaredSets : ~ExactlyOne(set) /\ NamesSet(error, set)

C1_Witness ==
  /\ command = ChannelGet
  /\ failedAt = "EnforceOptionSets"
  /\ ExactlyOne({"teamId", "teamName"})
  /\ Cardinality(Supplied({"channelId", "channelName", "primary"})) = 2

Answered(answer) ==
  \E i \in 1..Len(trace) : trace[i].type = "answer" /\ trace[i].method = answer

\* C2: after the confirmation was declined, with no --confirm, no request at
\* all (so no delete) has been issued, and the invocation has ended with exit
\* code 0, nothing on the result channel and no error.
C2_DeclineSkipsAction ==
  (command = TeamRemove /\ options.confirm = Undef /\ Answered("no")) =>
    /\ Requests(trace) = <<>>
    /\ stage = "Declined"
    /\ exitCode = 0
    /\ log = <<>>
    /\ error = NoError

C2_Witness ==
  command = TeamRemove /\ options.confirm = Undef /\ Answered("no") /\ pc = "done"

ActionEnded == pc = "done"

\* C3 as stated: with --confirm, once the action has ended exactly one delete
\* request has been issued and no confirmation was requested.
C3_Original ==
  (command = TeamRemove /\ options.confirm # Undef /\ ActionEnded) =>
    /\ Len(Deletes(trace)) = 1
    /\ Prompts(trace) = <<>>

\* C3: with --confirm no confirmation is ever requested and the action starts
\* without one; at most one delete request is issued, and once the action has
\* ended exactly one has been issued if the team was given by id or the name
\* resolved to a team, and none if the lookup of the name failed.
C3_BypassRunsActionOnce ==
  (command = TeamRemove /\ options.confirm # Undef) =>
    /\ Prompts(trace) = <<>>
    /\ promptOptions = <<>>
    /\ ~Answered("yes") /\ ~Answered("no")
    /\ Len(Deletes(trace)) <= 1
    /\ ActionEnded =>
         Len(Deletes(trace)) = IF resolved # None THEN 1 ELSE 0
    /\ (ActionEnded /\ options.id # Undef) => Len(Deletes(trace)) = 1

C3_Witness ==
  /\ command = TeamRemove /\ options.confirm # Undef /\ ActionEnded
  /\ Len(Deletes(trace)) = 1
  /\ stage = "EmitResult"

IsDelete(e) == e.type = "request" /\ e.method = "DELETE"

\* C4: without --confirm, once the action has started exactly one prompt of
\* type confirm with default answer no has been issued, it is the first thing
\* the action does, and a delete request is issued at most once and only
\* after a yes to that prompt.
C4_PromptBeforeDelete ==
  (command = TeamRemove /\ options.confirm = Undef /\ pc \notin {None, "start"}) =>
    /\ Len(Prompts(trace)) = 1
    /\ trace[1].type = "prompt" /\ trace[1].method = "confirm"
    /\ Len(promptOptions) = 1
    /\ promptOptions[1].type = "confirm" /\ promptOptions[1].default = FALSE
    /\ Len(Deletes(trace)) <= 1
    /\ \A i \in 1..Len(trace) :
         IsDelete(trace[i]) =>
           \E j \in 1..(i - 1) : trace[j].type = "answer" /\ trace[j].method = "yes"
    /\ \A i \in 1..Len(trace) : trace[i].type = "answer" => i = 2

C4_Witness ==
  /\ command = TeamRemove /\ options.confirm = Undef
  /\ Answered("yes")
  /\ Len(Deletes(trace)) = 1

\* C6: when an option set of the command does not hold, no validator is ever
\* started, the action never starts and no request is issued; a failure of
\* the enforcement is the end of the invocation.
C6_EnforcementBeforeValidation ==
  /\ ~DeclaredSetsHold =>
       /\ validatorsRun = 0 /\ checksRun = <<>>
       /\ pc = None
       /\ trace = <<>>
       /\ stage \in {"Parse", "EnforceOptionSets", "Failed"}
  /\ failedAt = "EnforceOptionSets" =>
       validatorsRun = 0 /\ checksRun = <<>> /\ trace = <<>> /\ stage = "Failed"

C6_Witness ==
  /\ command = SpGet
  /\ failedAt = "EnforceOptionSets"
  /\ options.appId = BadVal /\ options.objectId = BadVal

\* Options the validators of `spo feature list` and `teams team remove` refuse.
RefusedByValidator ==
  \/ /\ command = FeatureList
     /\ options.scope \notin {Undef, "Site", "Web"} \/ options.url # UrlVal
  \/ /\ command = TeamRemove
     /\ \/ options.id = Undef /\ options.name = Undef /\ options.teamId = Undef
        \/ options.name # Undef /\ (options.id # Undef \/ options.teamId # Undef)
        \/ options.id = BadVal
        \/ options.teamId = BadVal

\* C7: an invocation that a validator or the option-set enforcement failed
\* has issued no request and no prompt, has written nothing to the result
\* channel and has not started the action; options a validator refuses never
\* get past validation.
C7_ValidationFailureBeforeAction ==
  /\ failedAt \in {"EnforceOptionSets", "Validate"} =>
       /\ trace = <<>>
       /\ log = <<>>
       /\ pc = None
       /\ stage = "Failed" /\ exitCode = 1
  /\ RefusedByValidator =>
       /\ trace = <<>> /\ log = <<>> /\ pc = None
       /\ stage \in {"Parse", "EnforceOptionSets", "Validate", "Failed"}

C7_Witness ==
  /\ command \in {FeatureList, TeamRemove}
  /\ failedAt = "Validate"
  /\ RefusedByValidator

\* C10 as stated: whenever a lookup by identifier or name has answered with
\* no match, the invocation has failed with a message that contains the
\* identifier or name the lookup used.
C10_NotFoundEchoesIdentifier ==
  \A i \in 1..Len(lookups) :
    Len(lookups[i].ids) = 0 =>
      stage = "Failed" /\ Contains(error, lookups[i].key)

(***************************************************************************)
(* The validator of `aad app add` over every combination of the options    *)
(* it reads.                                                               *)
(***************************************************************************)
AppAddValidatedOptions ==
  [name : NameChoices,
   manifest : {Undef, ManifestBroken, ManifestNull, ManifestNumber, ManifestEmpty,
               ManifestNamed},
   platform : {Undef, "web", "desktop"},
   redirectUris : {Undef, "https://localhost"},
   certificateFile : {Undef, CertFile, MissingFile},
   certificateBase64Encoded : {Undef, "MIIC"},
   certificateDisplayName : {Undef, "Some certificate"},
   scopeName : {Undef, "access_as_user"},
   uri : {Undef, "api://contoso"},
   scopeAdminConsentDescription : {Undef, "Access as a user"},
   scopeAdminConsentDisplayName : {Undef, "Access as a user"},
   scopeConsentBy : {Undef, "admins", "everyone"},
   implicitFlow : {Undef}, multitenant : {Undef}, withSecret : {Undef},
   apisDelegated : {Undef}, apisApplication : {Undef}, grantAdminConsent : {Undef},
   save : {Undef}, verbose : {Undef}, debug : {Undef}]

InitAppAddValidate ==
  /\ command = AppAdd
  /\ options \in AppAddValidatedOptions
  /\ m365rc = NoFile
  /\ Fresh

NextAppAddValidate ==
  \/ Parse
  \/ EnforceOptionSets
  \/ RunValidator
  \/ CollectTelemetry

SpecAppAddValidate == InitAppAddValidate /\ [][NextAppAddValidate]_vars

\* C5: once validation has run, the checks evaluated are checks 1..k of the
\* validator in source order, checks 1..k-1 passed, and either check k failed,
\* validation failed and the error is exactly the string of check k, or k is
\* the last check and validation did not fail; no validator after a failing
\* one ran.
C5_FirstFailingCheckWins ==
  validatorsRun >= 1 =>
    LET cs == Validators(command, options)[validatorsRun]
        k == Len(checksRun)
    IN /\ validatorsRun <= Len(Validators(command, options))
       /\ k \in 1..Len(cs)
       /\ checksRun = [i \in 1..k |-> <<validatorsRun, i>>]
       /\ \A j \in 1..(k - 1) : ~cs[j].fails
       /\ IF cs[k].fails
            THEN failedAt = "Validate" /\ stage = "Failed" /\ error = cs[k].msg
            ELSE k = Len(cs) /\ failedAt # "Validate"

C5_Witness ==
  /\ command = AppAdd
  /\ failedAt = "Validate"
  /\ Len(checksRun) = 7
  /\ error = <<"When you specify scopeName you also need to specify uri">>
  /\ \E j \in 8..Len(AppAddValidator(options)) : AppAddValidator(options)[j].fails

(***************************************************************************)
(* What the validator of `aad app add` returns                             *)
(***************************************************************************)
\* The strings of the return statements of the validator (app-add.ts
\* 190-243), with the values they interpolate.
ReturnStatements(opts) ==
  { <<"Specify either the name of the app to create or the manifest">>,
    <<Get(opts, "platform"), " is not a valid value for platform. Allowed values are ">>
      \o JoinWith(aadApplicationPlatform, ", "),
    <<"When you specify redirectUris you also need to specify platform">>,
    <<"Specify either certificateFile or certificateBase64Encoded but not both">>,
    <<"When you specify certificateDisplayName you also need to specify certificateFile or certificateBase64Encoded">>,
    <<"Certificate file not found">>,
    <<"When you specify scopeName you also need to specify uri">>,
    <<"When you specify scopeName you also need to specify scopeAdminConsentDescription">>,
    <<"When you specify scopeName you also need to specify scopeAdminConsentDisplayName">>,
    <<Get(opts, "scopeConsentBy"), " is not a valid value for scopeConsentBy. Allowed values are ">>
      \o JoinWith(aadAppScopeConsentBy, ", "),
    <<"Specify the name of the app to create either through the 'name' option or the 'name' property in the manifest">> }
  \cup { <<"Error while parsing the specified manifest: ", e>> : e \in {"SyntaxError", "TypeError"} }

\* C24: the validator of `aad app add` answers every option map: once it has
\* run, either it returned true and validation went on without an error, or
\* validation failed with the string of one of its return statements; a
\* certificate file that does not exist, a manifest that is no JSON and a
\* manifest that parses to null or to a number are answered so.
C24_ValidatorNeverRaises ==
  /\ (command = AppAdd /\ stage = "Validate") =>
       /\ validatorsRun < Len(Validators(command, options))
       /\ RunChecks(Validators(command, options)[validatorsRun + 1]).ran >= 1
  /\ (command = AppAdd /\ validatorsRun >= 1) =>
       \/ stage # "Failed" /\ failedAt = None /\ error = NoError
       \/ stage = "Failed" /\ failedAt = "Validate" /\ error \in ReturnStatements(options)
  /\ (command = AppAdd /\ validatorsRun >= 1 /\ Len(checksRun) >= 6
        /\ options.certificateFile = MissingFile) =>
       error = <<"Certificate file not found">>
  /\ (command = AppAdd /\ validatorsRun >= 1 /\ options.manifest = ManifestBroken) =>
       stage = "Failed"
  /\ (command = AppAdd /\ validatorsRun >= 1 /\ options.manifest = ManifestNumber
        /\ stage # "Failed") =>
       Truthy(options, "name") /\ manifest.kind = "number"

\* The manifest is the JSON null and no name is given: the read of .name
\* throws inside the try and the validator returns the string of the catch.
C24_Witness ==
  /\ command = AppAdd
  /\ validatorsRun = 1
  /\ options.manifest = ManifestNull
  /\ ~Truthy(options, "name")
  /\ error = <<"Error while parsing the specified manifest: ", "TypeError">>

(***************************************************************************)
(* `aad app add` from the command line to the end of its action            *)
(***************************************************************************)
\* Invocations that differ in the APIs they request and in admin consent.
ConsentOptions ==
  [name : NameChoices,
   manifest : {Undef, ManifestNull, ManifestNamed, ManifestWithApis},
   apisDelegated : ApisDelegatedChoices,
   apisApplication : ApisApplicationChoices,
   grantAdminConsent : FlagChoices,
   debug : FlagChoices,
   uri : {Undef}, withSecret : {Undef}, save : {Undef}, verbose : {Undef},
   platform : {Undef}, redirectUris : {Undef}, certificateFile : {Undef},
   certificateBase64Encoded : {Undef}, certificateDisplayName : {Undef},
   scopeName : {Undef}, scopeAdminConsentDescription : {Undef},
   scopeAdminConsentDisplayName : {Undef}, scopeConsentBy : {Undef},
   implicitFlow : {Undef}, multitenant : {Undef}]

\* Invocations that differ in what follows the creation of the app.
TailOptions ==
  [name : {NameVal},
   manifest : {Undef, ManifestNamed},
   apisDelegated : {Undef, "https://sp1/s1"},
   apisApplication : {Undef},
   grantAdminConsent : FlagChoices,
   uri : {Undef, "api://contoso"},
   withSecret : FlagChoices,
   save : FlagChoices,
   verbose : FlagChoices,
   debug : FlagChoices,
   platform : {Undef}, redirectUris : {Undef}, certificateFile : {Undef},
   certificateBase64Encoded : {Undef}, certificateDisplayName : {Undef},
   scopeName : {Undef}, scopeAdminConsentDescription : {Undef},
   scopeAdminConsentDisplayName : {Undef}, scopeConsentBy : {Undef},
   implicitFlow : {Undef}, multitenant : {Undef}]

AppAddOptions == ConsentOptions \cup TailOptions

InitAppAdd ==
  /\ command = AppAdd
  /\ options \in AppAddOptions
  /\ m365rc \in IF Truthy(options, "save") THEN Files ELSE {NoFile}
  /\ Fresh

NextAppAdd ==
  \/ Parse
  \/ EnforceOptionSets
  \/ RunValidator
  \/ CollectTelemetry
  \/ AppAddStart
  \/ AppAddServicePrincipalsResponse
  \/ AppAddCreateResponse
  \/ AppAddManifestResponse
  \/ AppAddServicePrincipalResponse
  \/ \E i \in 1..Len(tasks) : TaskSettle(i)
  \/ AppAddUriResponse
  \/ AppAddSecretResponse

SpecAppAdd == InitAppAdd /\ [][NextAppAdd]_vars

\* The service answers every request sent to it.
SpecAppAddFair ==
  /\ InitAppAdd
  /\ [][NextAppAdd]_vars
  /\ WF_vars(\E i \in 1..Len(tasks) : TaskSettle(i))

\* The admin-consent requests of the invocation are in flight or answered.
FannedOut == command = AppAdd /\ tasks # <<>>

Issued(req) == \E k \in 1..Len(trace) : trace[k] = req

\* commandAction has gone on past grantAdminConsent.
PastConsent ==
  pc \in {"awaitUri", "awaitSecret"} \/ stage = "EmitResult"
  \/ (stage = "Failed" /\ \A i \in 1..Len(tasks) : tasks[i].state = "fulfilled")

\* The number of requests grantAdminConsent has to send for this.appPermissions.
GrantCount ==
  LET n(p) == (IF Len(p.scope) > 0 THEN 1 ELSE 0)
              + Cardinality({a \in 1..Len(p.resourceAccess) : p.resourceAccess[a].type = "Role"})
      sum[k \in 0..Len(appPermissions)] ==
        IF k = 0 THEN 0 ELSE sum[k - 1] + n(appPermissions[k])
  IN sum[Len(appPermissions)]

SecondOfThreeFails ==
  /\ command = AppAdd
  /\ Len(tasks) = 3
  /\ tasks[1].fate = "ok" /\ tasks[2].fate = "fail" /\ tasks[3].fate = "ok"

SecondReported ==
  /\ stage = "Failed" /\ exitCode = 1
  /\ error = Normalize(TaskFailure(tasks[2].request))
  /\ log = <<>>

\* C9: with three admin-consent requests of which the second fails, all
\* three have been sent, none is ever aborted, the action never goes on past
\* grantAdminConsent, and once the second has failed the invocation has
\* failed with the failure of the second; whatever the order of the answers,
\* the invocation ends up failed with that failure and the first and the
\* third have taken effect.
C9_SecondFailureReportedSiblingsComplete ==
  /\ [](SecondOfThreeFails =>
          /\ \A i \in 1..3 : Issued(tasks[i].request)
          /\ \A i \in 1..3 : tasks[i].state \in {"inflight", "fulfilled", "rejected"}
          /\ stage \in {"RunAction", "Failed"} /\ pc \in {"awaitAll", "done"}
          /\ tasks[2].state = "rejected" => SecondReported
          /\ stage = "Failed" => tasks[2].state = "rejected")
  /\ (SecondOfThreeFails ~>
        /\ SecondOfThreeFails
        /\ SecondReported
        /\ tasks[1].state = "fulfilled"
        /\ tasks[3].state = "fulfilled")

C9_Witness ==
  /\ SecondOfThreeFails
  /\ settled = <<2, 3, 1>>
  /\ SecondReported
  /\ tasks[1].state = "fulfilled" /\ tasks[3].state = "fulfilled"

(***************************************************************************)
(* Properties of the lookups                                               *)
(***************************************************************************)
\* The message ends with the identifiers, in their order, joined by a comma.
ListsCandidates(msg, ids) ==
  \E sep \in {",", ", "} :
    /\ Len(msg) >= Len(JoinWith(ids, sep))
    /\ SubSeq(msg, Len(msg) - Len(JoinWith(ids, sep)) + 1, Len(msg)) = JoinWith(ids, sep)

\* C11 as stated: whenever a lookup has answered with more than one match,
\* the invocation has failed with a message that lists the identifiers of all
\* the matches, comma-joined, in the order the lookup returned them.
C11_AmbiguousMatchListsCandidates ==
  \A i \in 1..Len(lookups) :
    Len(lookups[i].ids) > 1 =>
      stage = "Failed" /\ ListsCandidates(error, lookups[i].ids)

\* The i-th lookup of `teams channel get` is the one of the channel by name.
IsChannelLookup(i) ==
  command = ChannelGet /\ i = IF Truthy(options, "teamId") THEN 1 ELSE 2

\* What the command made of the matches of its i-th lookup.
LookupOutcome(i) ==
  CASE command = AppGet -> GetAppObjectId(options, lookups[i].ids)
    [] command = SpGet -> GetSpId(options, lookups[i].ids)
    [] IsChannelLookup(i) -> GetChannelId(lookups[i].ids)
    [] OTHER ->
         GetGroupByDisplayName(lookups[i].key,
                               [shape |-> "groups", ids |-> lookups[i].ids, isTeam |-> TRUE])

\* A lookup of the invocation ended in NotFound or AmbiguousMatch.
LookupRejected == \E i \in 1..Len(lookups) : ~LookupOutcome(i).ok

\* C12: once a lookup has ended in NotFound or AmbiguousMatch the invocation
\* has failed in its action with exit code 1 and an error, that lookup is the
\* last request it issued (no detail request, no delete), the result channel
\* is empty, the registration file is as it was, and nothing happens after.
C12_FailedLookupIsFatal ==
  /\ [](LookupRejected =>
          /\ stage = "Failed" /\ failedAt = "RunAction"
          /\ exitCode = 1 /\ error # NoError
          /\ pc = "done"
          /\ ~LookupOutcome(Len(lookups)).ok
          /\ error = Normalize(LookupOutcome(Len(lookups)).raw)
          /\ Len(Requests(trace)) = Len(lookups)
          /\ Deletes(trace) = <<>>
          /\ log = <<>>)
  /\ [][/\ ~LookupRejected
        /\ LookupRejected' => m365rc' = m365rc]_vars

C12_Witness ==
  /\ command = AppGet
  /\ Truthy(options, "save")
  /\ m365rc.kind = "apps"
  /\ Len(lookups) = 1 /\ Len(lookups[1].ids) = 2
  /\ stage = "Failed"

\* C13: in `aad sp get` the identifier of the main request is the objectId
\* supplied or, when none is supplied, the id of the one match of the lookup;
\* no other request than the lookup and that main request is issued; what is
\* written to the result channel is the response for that identifier; and
\* with displayName the only member supplied and one match, the main request
\* has been issued with the id of that match.
C13_MainRequestUsesResolvedId ==
  command = SpGet =>
    /\ resolved # None =>
         /\ IF Truthy(options, "objectId")
              THEN resolved = options.objectId /\ lookups = <<>>
              ELSE Len(lookups) = 1 /\ lookups[1].ids = <<resolved>>
         /\ trace[Len(trace)] = SpDetail(resolved)
    /\ \A k \in 1..Len(trace) :
         trace[k] # SpLookup(options) => resolved # None /\ trace[k] = SpDetail(resolved)
    /\ log # <<>> => stage = "EmitResult" /\ log = << [id |-> resolved] >>
    /\ ( /\ Supplied({"appId", "displayName", "objectId"}) = {"displayName"}
         /\ Len(lookups) = 1
         /\ Len(lookups[1].ids) = 1 ) =>
         /\ lookups[1].key = options.displayName
         /\ resolved = lookups[1].ids[1]
         /\ Issued(SpDetail(lookups[1].ids[1]))

C13_Witness ==
  /\ command = SpGet
  /\ Supplied({"appId", "displayName", "objectId"}) = {"displayName"}
  /\ Len(lookups) = 1 /\ lookups[1].ids = <<"id2">>
  /\ stage = "EmitResult"
  /\ log = << [id |-> "id2"] >>

(***************************************************************************)
(* Properties of the local registration file                               *)
(***************************************************************************)
IsPrefix(s, t) == Len(s) <= Len(t) /\ SubSeq(t, 1, Len(s)) = s

Holds(apps, appId) == \E i \in 1..Len(apps) : apps[i].appId = appId

NoDuplicates(apps) ==
  \A i, j \in 1..Len(apps) : i # j => apps[i].appId # apps[j].appId

\* C14 as stated: every step of an invocation leaves the records of the
\* registration file in place and in order and adds at most one record, at
\* the end and only if the file held no record with its identifier; the file
\* never holds two records with the same identifier.
C14_SaveIsReadMergeWrite ==
  /\ [][/\ IsPrefix(m365rc.apps, m365rc'.apps)
        /\ Len(m365rc'.apps) <= Len(m365rc.apps) + 1
        /\ Len(m365rc'.apps) = Len(m365rc.apps) + 1 =>
             ~Holds(m365rc.apps, m365rc'.apps[Len(m365rc'.apps)].appId)]_vars
  /\ []NoDuplicates(m365rc.apps)

\* The invocation ended with a failure the service answered with.
UpstreamFailed == error \in {Normalize(f) : f \in UpstreamFailures}

\* saveAppInfo wrote a warning about the registration file.
Warned ==
  \E i \in 1..Len(stderr) : stderr[i][1] \in {"Error reading ", "Error writing "}

\* C15 as stated: when `aad app get --save` has ended after a successful
\* detail request and the registration file cannot be parsed or is not of the
\* expected shape, the invocation has exited 0, has written the app to the
\* result channel and a warning to the diagnostic channel.
C15_SaveFailureIsWarning ==
  ( /\ command = AppGet
    /\ Truthy(options, "save")
    /\ pc = "done"
    /\ resolved # None
    /\ ~UpstreamFailed
    /\ m365rc.kind \in {"garbage", "null"} ) =>
    /\ stage = "EmitResult" /\ exitCode = 0
    /\ Len(log) = 1 /\ log[1] \in AppInfos(resolved)
    /\ Warned

(***************************************************************************)
(* Properties of the stages, the exit code and the telemetry               *)
(***************************************************************************)
Terminal == {"EmitResult", "Declined", "Failed"}

\* The stages an invocation may enter next.  The catch of the action
\* normalises the failure and ends the invocation in one step, so the exit of
\* NormalizeErrors is the step from RunAction to Failed.
StagesAfter(s) ==
  CASE s = "Parse" -> {"EnforceOptionSets"}
    [] s = "EnforceOptionSets" -> {"Validate", "Failed"}
    [] s = "Validate" -> {"CollectTelemetry", "Failed"}
    [] s = "CollectTelemetry" ->
         IF command = TeamRemove THEN {"ConfirmationGate"} ELSE {"RunAction"}
    [] s = "ConfirmationGate" -> {"RunAction", "Declined"}
    [] s = "RunAction" -> {"EmitResult", "Failed"}
    [] OTHER -> {}

\* C16: the stage changes only to a stage that follows it in the order Parse,
\* EnforceOptionSets, Validate, CollectTelemetry, ConfirmationGate (for the
\* destructive command only), RunAction, EmitResult, or to a failure from an
\* exit point or to a decline from the gate, so no stage is entered twice;
\* nothing happens after EmitResult, a decline or a failure; and every
\* invocation ends in one of those three.
C16_StagesInOrder ==
  /\ [][stage' # stage => stage' \in StagesAfter(stage)]_vars
  /\ [][stage \notin Terminal]_vars
  /\ [](stage = "ConfirmationGate" => command = TeamRemove)
  /\ [](stage = "Failed" => failedAt \in {"EnforceOptionSets", "Validate", "RunAction"})
  /\ [](stage = "Declined" => Answered("no"))
  /\ <>[](stage \in Terminal)

C16_Witness ==
  /\ command = TeamRemove
  /\ Answered("yes")
  /\ stage = "EmitResult"

\* C17: an invocation that ended by emitting its result or by a declined
\* confirmation has exit code 0 and no error; one that failed has exit code 1
\* and an error; one that has not ended has no exit code; and an invocation of
\* `aad app get` that warned about the registration file ends with exit code 0.
C17_ExitCode ==
  /\ IF stage \in {"EmitResult", "Declined"} THEN exitCode = 0 /\ error = NoError
     ELSE IF stage = "Failed" THEN exitCode = 1 /\ error # NoError
     ELSE exitCode = None /\ error = NoError
  /\ (Warned /\ pc = "done") => stage = "EmitResult" /\ exitCode = 0

C17_Witness ==
  /\ command = AppGet
  /\ Warned
  /\ stage = "EmitResult"
  /\ m365rc.kind = "garbage"

\* C18: the telemetry record is written in one step only, the one that leaves
\* CollectTelemetry, which is entered from a validation that passed, with
\* every option set holding, every validator run and nothing of the action
\* started; that step writes what the command's hook computes from the
\* options; an invocation that failed enforcement or validation has an empty
\* record, and no invocation fails in CollectTelemetry.
C18_TelemetryOnceAfterValidation ==
  /\ [][IF stage = "CollectTelemetry"
          THEN /\ stage' # "CollectTelemetry"
               /\ telemetry' = TelemetryOf(command, options)
               /\ DeclaredSetsHold
               /\ validatorsRun = Len(Validators(command, options))
               /\ failedAt = None /\ pc = None /\ trace = <<>>
          ELSE /\ telemetry' = telemetry
               /\ stage' = "CollectTelemetry" => stage = "Validate"]_vars
  /\ [](failedAt \in {"EnforceOptionSets", "Validate"} => telemetry = <<>>)
  /\ [](failedAt # "CollectTelemetry")
  /\ [](pc # None => telemetry = TelemetryOf(command, options))

C18_Witness ==
  /\ command = ChannelGet
  /\ stage = "EmitResult"
  /\ telemetry = TelemetryOf(command, options)
  /\ telemetry.primary = "true" /\ telemetry.teamName = "true"

(***************************************************************************)
(* What the telemetry record carries                                       *)
(***************************************************************************)
\* The options whose value is free text: names, identifiers, URIs, manifests,
\* certificates and API lists.
FreeTextOptions ==
  {"name", "manifest", "redirectUris", "certificateFile", "certificateBase64Encoded",
   "certificateDisplayName", "scopeName", "uri", "scopeAdminConsentDescription",
   "scopeAdminConsentDisplayName", "apisDelegated", "apisApplication", "appId",
   "objectId", "displayName", "teamId", "teamName", "channelId", "channelName", "id",
   "url"}

FreeTextSupplied(opts) == {n \in FreeTextOptions \cap DOMAIN opts : opts[n] # Undef}

OtherText == "another free text"

\* The options of an invocation that supplies the same options with the same
\* flags and enumerated values, and another text for the options in `changed`.
Retexted(opts, changed) ==
  [n \in DOMAIN opts |-> IF n \in changed THEN OtherText ELSE opts[n]]

Items(seq) == {seq[i] : i \in 1..Len(seq)}

MustAsk == command = TeamRemove /\ ~Truthy(options, "confirm")

\* C26: in a `teams team remove` without --confirm every request, the lookup
\* of the group by name as well as the delete, comes after a yes to the
\* prompt, which is the second event of the action; while no yes was given no
\* lookup was made and no request sent; and after a no nothing is sent any
\* more and the invocation has ended.
C26_NoRequestBeforeAnswer ==
  /\ [](MustAsk =>
          /\ \A i \in 1..Len(trace) :
               trace[i].type = "request" =>
                 i >= 3 /\ trace[1].type = "prompt" /\ trace[2] = AnswerEvent(TRUE)
          /\ ~Answered("yes") => Requests(trace) = <<>> /\ lookups = <<>> /\ resolved = None
          /\ Answered("no") => Requests(trace) = <<>> /\ pc = "done" /\ Len(trace) = 2)
  /\ [][(MustAsk /\ Answered("no")) => trace' = trace /\ lookups' = lookups]_vars

\* After a yes the group was looked up by name and the delete was sent.
C26_Witness ==
  /\ MustAsk
  /\ Truthy(options, "name")
  /\ Len(trace) = 4
  /\ trace[2] = AnswerEvent(TRUE)
  /\ trace[3] = GroupsByName(options.name)
  /\ IsDelete(trace[4])

\* The team to remove is given by its name.
ByName ==
  /\ command = TeamRemove
  /\ Truthy(options, "name") /\ ~Truthy(options, "id") /\ ~Truthy(options, "teamId")

\* The lookup answered with exactly one group, which is or is not a team.
OneGroupFound(i, isTeam) ==
  answers[i].shape = "groups" /\ Len(answers[i].ids) = 1 /\ answers[i].isTeam = isTeam

\* C27: a `teams team remove` sends at most one delete; by name, the delete
\* is for the one group the lookup answered with, and that group is a team;
\* when the one group of that name is not a team the invocation has failed
\* with 'The specified team does not exist in the Microsoft Teams' and no
\* delete was sent.
C27_DeleteOnlyForTeams ==
  /\ command = TeamRemove => Len(Deletes(trace)) <= 1
  /\ ByName =>
       /\ \A k \in 1..Len(trace) :
            IsDelete(trace[k]) =>
              \E i \in 1..Len(answers) :
                OneGroupFound(i, TRUE) /\ trace[k] = DeleteGroup(answers[i].ids[1])
       /\ \A i \in 1..Len(answers) :
            OneGroupFound(i, FALSE) =>
              /\ Deletes(trace) = <<>>
              /\ stage = "Failed" /\ exitCode = 1
              /\ error = <<"The specified team does not exist in the Microsoft Teams">>

\* The one group of that name is no team: nothing was deleted.
C27_Witness ==
  /\ ByName
  /\ Truthy(options, "confirm")
  /\ Len(answers) = 1
  /\ OneGroupFound(1, FALSE)
  /\ stage = "Failed"
  /\ trace = <<GroupsByName(options.name)>>

(***************************************************************************)
(* Properties of the failures of an action                                 *)
(***************************************************************************)
\* The service answered request i of the invocation with an error.
FailureAnswered(i) == answers[i].shape \in {"odata", "opaque"}

\* C21: an error answer of the service is the last answer the action takes
\* and the error surfaced is its normalisation; every invocation that failed
\* in its action has exactly one error, a non-empty line of text, and no
\* result; no other invocation has an error; and an error, once surfaced, is
\* never replaced or followed by another stage.
C21_OneErrorPerFailure ==
  /\ [](\A i \in DOMAIN answers :
          FailureAnswered(i) =>
            /\ i = Len(answers)
            /\ stage = "Failed" /\ failedAt = "RunAction"
            /\ error = Normalize(answers[i]))
  /\ [](LookupRejected => stage = "Failed" /\ failedAt = "RunAction")
  /\ [](stage = "Failed" =>
          /\ error # NoError
          /\ error \in Seq(STRING)
          /\ \A i \in DOMAIN error : error[i] # ""
          /\ log = <<>>)
  /\ [](stage # "Failed" => error = NoError)
  /\ [][error' # error => error = NoError /\ stage # "Failed" /\ stage' = "Failed"]_vars
  /\ [][stage = "Failed" => stage' = "Failed" /\ error' = error /\ log' = log]_vars

\* The delete of `teams team remove` was answered with a failure that carries
\* no message, and the invocation surfaced the one line of the normalizer.
C21_Witness ==
  /\ command = TeamRemove
  /\ Deletes(trace) # <<>>
  /\ answers # <<>>
  /\ answers[Len(answers)] = OpaqueError
  /\ stage = "Failed"
  /\ error = <<"An error has occurred">>

(***************************************************************************)
(* The same invocation, run again with other diagnostics.                  *)
(*                                                                         *)
(* Once an invocation with --verbose or --debug has ended it is started    *)
(* again from the file it found, with the same options but neither of the  *)
(* two, and the service, the file system and the person at the prompt      *)
(* answer the second run as they answered the first.                       *)
(***************************************************************************)
DiagnosticOptions == {"verbose", "debug"}

\* The same options without the diagnostics.
Quiet(opts) == [n \in DOMAIN opts |-> IF n \in DiagnosticOptions THEN Undef ELSE opts[n]]

Rerun ==
  /\ firstRun.phase = 1
  /\ stage \in Terminal
  /\ options # Quiet(options)
  /\ options' = Quiet(options)
  /\ firstRun' = [firstRun EXCEPT !.phase = 2, !.stage = stage, !.trace = trace,
                                  !.log = log, !.stderr = stderr, !.answers = answers]
  /\ m365rc' = firstRun.file
  /\ stage' = "Parse"
  /\ pc' = None
  /\ validatorsRun' = 0
  /\ checksRun' = <<>>
  /\ telemetry' = <<>>
  /\ trace' = <<>>
  /\ promptOptions' = <<>>
  /\ log' = <<>>
  /\ stderr' = <<>>
  /\ error' = NoError
  /\ exitCode' = None
  /\ failedAt' = None
  /\ lookups' = <<>>
  /\ resolved' = None
  /\ teamId' = ""
  /\ manifest' = NoManifest
  /\ appName' = ""
  /\ appPermissions' = <<>>
  /\ appInfo' = NoAppInfo
  /\ tasks' = <<>>
  /\ settled' = <<>>
  /\ answers' = <<>>
  /\ UNCHANGED command

\* The second run is answered as the first was.
Replayed == firstRun.phase = 2 => IsPrefix(answers', firstRun.answers)

NextTwin ==
  \/ Parse /\ Replayed
  \/ EnforceOptionSets /\ Replayed
  \/ RunValidator /\ Replayed
  \/ CollectTelemetry /\ Replayed
  \/ TeamRemoveStart /\ Replayed
  \/ TeamRemoveAnswer /\ Replayed
  \/ TeamRemoveRemoveTeam /\ Replayed
  \/ TeamRemoveGroupResponse /\ Replayed
  \/ TeamRemoveDeleteResponse /\ Replayed
  \/ AppGetStart /\ Replayed
  \/ AppGetLookupResponse /\ Replayed
  \/ AppGetInfoResponse /\ Replayed
  \/ SpGetStart /\ Replayed
  \/ SpGetLookupResponse /\ Replayed
  \/ SpGetInfoResponse /\ Replayed
  \/ ChannelGetStart /\ Replayed
  \/ ChannelGetGroupResponse /\ Replayed
  \/ ChannelGetLookupResponse /\ Replayed
  \/ ChannelGetInfoResponse /\ Replayed
  \/ FeatureListStart /\ Replayed
  \/ FeatureListResponse /\ Replayed
  \/ AppAddStart /\ Replayed
  \/ AppAddServicePrincipalsResponse /\ Replayed
  \/ AppAddCreateResponse /\ Replayed
  \/ AppAddManifestResponse /\ Replayed
  \/ AppAddServicePrincipalResponse /\ Replayed
  \/ \E i \in 1..Len(tasks) : TaskSettle(i) /\ Replayed
  \/ AppAddUriResponse /\ Replayed
  \/ AppAddSecretResponse /\ Replayed
  \/ Rerun

InitTwin == Init \/ InitAppAdd

SpecTwin == InitTwin /\ [][NextTwin]_vars

\* What a command writes to the result channel: the payload of its main
\* request, and nothing else.
IsPayload(entry) ==
  CASE command = FeatureList -> entry \in Matches /\ Len(entry) > 0
    [] command = AppGet -> entry \in AppInfos(resolved)
    [] command \in {SpGet, ChannelGet} -> entry = [id |-> resolved]
    [] command = AppAdd -> entry = Result(appInfo)
    [] OTHER -> FALSE

\* The invocation waits for an answer.
Awaiting ==
  pc \in {"prompt", "awaitGroup", "awaitDelete", "awaitLookup", "awaitInfo",
          "awaitServicePrincipals", "awaitCreate", "awaitManifest", "awaitServicePrincipal",
          "awaitAll", "awaitUri", "awaitSecret"}

\* C20: the result channel holds payloads only (at most the one of the main
\* request, never a trace line or a warning), and a second run of an
\* invocation with --verbose or --debug that has neither and is answered
\* as the first was sends the same requests, needs the same answers, ends
\* in the same stage and writes the same payloads to the result channel.
C20_ChannelsAreSeparate ==
  /\ Len(log) <= 1
  /\ \A i \in DOMAIN log : IsPayload(log[i])
  /\ log # <<>> => stage = "EmitResult"
  /\ firstRun.phase = 2 =>
       /\ IsPrefix(log, firstRun.log)
       /\ IsPrefix(trace, firstRun.trace)
       /\ Awaiting => Len(answers) < Len(firstRun.answers)
       /\ stage \in Terminal =>
            /\ stage = firstRun.stage
            /\ answers = firstRun.answers
            /\ trace = firstRun.trace
            /\ log = firstRun.log

\* Both runs have ended, they differ in what they wrote to the diagnostic
\* channel and they wrote the same payload to the result channel.
C20_Witness ==
  /\ firstRun.phase = 2
  /\ stage = "EmitResult"
  /\ log # <<>>
  /\ log = firstRun.log
  /\ stderr # firstRun.stderr
  /\ Len(stderr) + Len(firstRun.stderr) > 0

(***************************************************************************)
(* Properties of the resolution of the APIs                                *)
(***************************************************************************)
\* The options name a service principal the service does not list (spX), a
\* scope sp1 does not have (sX) or a role sp2 does not have (rX).
NamesUnknown ==
  /\ command = AppAdd
  /\ \/ Get(options, "apisDelegated") \in {"https://spX/s1", "https://sp1/s1,https://sp1/sX"}
     \/ Get(options, "apisApplication") = "sp2/rX"

\* The service has answered the listing of the service principals.
Listed == answers # <<>> /\ answers[1].resp.shape = "list"

\* C25: an `aad app add` whose options name an API that is not found sends
\* nothing but the listing of the service principals, creates no app, and
\* has failed with a "not found" error as soon as the listing is answered;
\* and an invocation that has APIs to resolve sends the creation of the app
\* only as its second request, after the listing has been answered.
C25_CreateAfterResolution ==
  /\ NamesUnknown =>
       /\ \A i \in 1..Len(trace) : trace[i] = ListServicePrincipals
       /\ appInfo = NoAppInfo /\ tasks = <<>> /\ log = <<>>
       /\ Listed =>
            /\ stage = "Failed" /\ failedAt = "RunAction" /\ exitCode = 1
            /\ error[Len(error)] = " not found"
  /\ (command = AppAdd /\ ~NothingToResolve(options, manifest)) =>
       \A i \in 1..Len(trace) :
         trace[i] # ListServicePrincipals => i >= 2 /\ Listed /\ trace[1] = ListServicePrincipals

\* The scope of the first API is found and recorded, the second is not
\* found: the invocation has failed and only the listing was sent.
C25_Witness ==
  /\ command = AppAdd
  /\ options.apisDelegated = "https://sp1/s1,https://sp1/sX"
  /\ Listed
  /\ stage = "Failed"
  /\ appPermissions # <<>>
  /\ trace = <<ListServicePrincipals>>

(***************************************************************************)
(* Properties of `aad app add` after the creation of the app               *)
(***************************************************************************)
\* The action failed after the service had created the app registration.
FailedAfterCreation == command = AppAdd /\ stage = "Failed" /\ appInfo.created

\* C23: when `aad app add` has failed after the app registration was
\* created, it has one error, exit code 1 and no result, and it has sent no
\* DELETE; from then on it sends nothing at all; and at no time is a created
\* registration or a grant the service has made taken back.
C23_NoRollbackAfterCreation ==
  /\ [](FailedAfterCreation =>
          /\ failedAt = "RunAction" /\ pc = "done"
          /\ error # NoError /\ exitCode = 1
          /\ log = <<>>
          /\ Deletes(trace) = <<>>
          /\ \E k \in 1..Len(trace) :
               trace[k].method = "POST" /\ trace[k].url[1] = "applications")
  /\ [][FailedAfterCreation =>
          /\ trace' = trace /\ log' = log
          /\ error' = error /\ stage' = stage]_vars
  /\ [][appInfo.created => appInfo'.created]_vars
  /\ [][\A i \in 1..Len(tasks) :
          tasks[i].state = "fulfilled" => Len(tasks') >= i /\ tasks'[i].state = "fulfilled"]_vars

\* The app was created, one grant was made and another one was refused.
C23_Witness ==
  /\ FailedAfterCreation
  /\ \E i \in 1..Len(tasks) : tasks[i].state = "fulfilled"
  /\ \E i \in 1..Len(tasks) : tasks[i].state = "rejected"
  /\ Deletes(trace) = <<>>

(***************************************************************************)
(* The registration file when it cannot be read                            *)
(***************************************************************************)
\* With answer i the invocation went on to saveAppInfo with --save, the file
\* existed, and reading it threw or its content was no JSON.
ReadFailedAt(i) ==
  /\ Truthy(options, "save")
  /\ firstRun.file.kind # "absent"
  /\ CASE command = AppGet ->
            /\ answers[i].shape = "ok"
            /\ answers[i].readThrows \/ firstRun.file.kind = "garbage"
       [] command = AppAdd ->
            /\ answers[i].fs # <<>>
            /\ answers[i].fs[1] \/ firstRun.file.kind = "garbage"
       [] OTHER -> FALSE

\* saveAppInfo wrote the warning that starts with `start`.
WarnedOf(start) == \E i \in 1..Len(stderr) : stderr[i][1] = start

\* C28: when `aad app get --save` or `aad app add --save` could not read or
\* parse the registration file, the file is as it was when the invocation
\* started, no write failed (none was attempted), the failure to read was
\* reported on the diagnostic channel, and the invocation has emitted its
\* result.
C28_FailedReadLeavesFile ==
  \A i \in 1..Len(answers) :
    ReadFailedAt(i) =>
      /\ i = Len(answers)
      /\ m365rc = firstRun.file
      /\ ~WarnedOf("Error writing ")
      /\ WarnedOf("Error reading ")
      /\ stage = "EmitResult" /\ Len(log) = 1

\* `aad app add --save` could not read a file that holds an app; writing
\* would have thrown as well.
C28_Witness ==
  /\ command = AppAdd
  /\ firstRun.file.kind = "apps" /\ firstRun.file.apps # <<>>
  /\ answers # <<>>
  /\ ReadFailedAt(Len(answers))
  /\ answers[Len(answers)].fs = <<TRUE, TRUE>>
  /\ m365rc = firstRun.file

(***************************************************************************)
(* this.appPermissions under any sequence of updateAppPermissions          *)
(***************************************************************************)
\* The calls resolveApis can make: a service principal, a resource access and
\* the value of the scope, which a role or an unknown id does not have.
ResourceAccessChoices == [id : {"s1-id", "r1-id"}, type : {"Scope", "Role"}]
PermissionValueChoices == {Undef, "s1", "s2"}

UpdateAppPermissionsCall ==
  /\ command = AppAdd
  /\ stage = "Parse"
  /\ \E spId \in {"sp1-id", "sp2-id"}, resourceAccessPermission \in ResourceAccessChoices,
        oAuth2PermissionValue \in PermissionValueChoices :
       appPermissions' = updateAppPermissions(appPermissions, spId, resourceAccessPermission,
                                              oAuth2PermissionValue)
  /\ UNCHANGED <<historyVars, inputVars, stage, pc, validationVars, telemetry, trace,
                 promptOptions, channelVars, error, exitCode, failedAt, lookups, resolved,
                 teamId, manifest, appName, appInfo, fanVars, m365rc>>

InitPermissions ==
  /\ command = AppAdd
  /\ options \in {o \in TailOptions :
                    /\ o.grantAdminConsent = "true"
                    /\ \A n \in DOMAIN o \ {"name", "grantAdminConsent", "verbose"} : o[n] = Undef}
  /\ m365rc = NoFile
  /\ Fresh

NextPermissions == UpdateAppPermissionsCall

SpecPermissions == InitPermissions /\ [][NextPermissions]_vars

NoTwoAlike(seq) == \A i, j \in 1..Len(seq) : seq[i] = seq[j] => i = j

\* C29: this.appPermissions holds at most one entry per resourceId, no scope
\* value twice in an entry and no two resource accesses with the same id in
\* an entry; and grantAdminConsent fans out, for every entry, one OAuth2
\* grant if the entry has a scope and one role assignment for each of its
\* resource accesses of type Role.
C29_PermissionsWellFormed ==
  /\ NoTwoAlike([n \in 1..Len(appPermissions) |-> appPermissions[n].resourceId])
  /\ \A n \in 1..Len(appPermissions) :
       /\ NoTwoAlike(appPermissions[n].scope)
       /\ NoTwoAlike([k \in 1..Len(appPermissions[n].resourceAccess) |->
                        appPermissions[n].resourceAccess[k].id])
  /\ Len(GrantRequests(CreatedServicePrincipal, appPermissions)) = GrantCount
  /\ \A n \in 1..Len(appPermissions) :
       LET entry == GrantRequests(CreatedServicePrincipal, <<appPermissions[n]>>)
           grants == {k \in 1..Len(entry) : entry[k].url[1] = "oauth2PermissionGrants"}
           roles == {k \in 1..Len(entry) : entry[k].url[1] = "servicePrincipals/"}
       IN /\ Cardinality(grants) = IF appPermissions[n].scope # <<>> THEN 1 ELSE 0
          /\ Cardinality(roles) =
               Cardinality({k \in 1..Len(appPermissions[n].resourceAccess) :
                              appPermissions[n].resourceAccess[k].type = "Role"})
          /\ Cardinality(grants) + Cardinality(roles) = Len(entry)

\* Two entries after calls that repeated a scope and an id: the first has two
\* scopes and one role.
C29_Witness ==
  /\ Len(appPermissions) = 2
  /\ appPermissions[1].scope = <<"s1", "s2">>
  /\ Len(appPermissions[1].resourceAccess) = 2
  /\ \E k \in 1..2 : appPermissions[1].resourceAccess[k].type = "Role"
  /\ Len(GrantRequests(CreatedServicePrincipal, appPermissions)) >= 3

(***************************************************************************)
(* Two invocations of `aad app add` in one process.                        *)
(*                                                                         *)
(* The module exports one AadAppAddCommand; its fields manifest, appName   *)
(* and appPermissions are initialised when it is constructed and assigned  *)
(* nowhere but in the validator, createAppRegistration and                 *)
(* updateAppPermissions.  A second invocation gets new args, a new logger  *)
(* and a new promise chain, and the fields as the first one left them.     *)
(***************************************************************************)
AgainOptions ==
  {o \in TailOptions :
     \A n \in {"manifest", "uri", "withSecret", "save", "verbose", "debug"} : o[n] = Undef}

InvokeAgain ==
  /\ command = AppAdd
  /\ firstRun.phase = 1
  /\ stage \in Terminal
  /\ options' \in AgainOptions
  /\ firstRun' = [firstRun EXCEPT !.phase = 2]
  /\ stage' = "Parse"
  /\ pc' = None
  /\ validatorsRun' = 0
  /\ checksRun' = <<>>
  /\ telemetry' = <<>>
  /\ trace' = <<>>
  /\ promptOptions' = <<>>
  /\ log' = <<>>
  /\ stderr' = <<>>
  /\ error' = NoError
  /\ exitCode' = None
  /\ failedAt' = None
  /\ lookups' = <<>>
  /\ resolved' = None
  /\ appInfo' = NoAppInfo
  /\ tasks' = <<>>
  /\ settled' = <<>>
  /\ answers' = <<>>
  /\ UNCHANGED <<command, instanceVars, m365rc>>

NextSameProcess ==
  \/ Parse
  \/ EnforceOptionSets
  \/ RunValidator
  \/ CollectTelemetry
  \/ AppAddStart
  \/ AppAddServicePrincipalsResponse
  \/ AppAddCreateResponse
  \/ AppAddManifestResponse
  \/ AppAddServicePrincipalResponse
  \/ \E i \in 1..Len(tasks) : TaskSettle(i)
  \/ AppAddUriResponse
  \/ AppAddSecretResponse
  \/ InvokeAgain

SpecSameProcess == InitAppAdd /\ [][NextSameProcess]_vars

\* The invocation asks for no API, neither in its options nor in a manifest.
AsksForNoApi ==
  \A n \in {"manifest", "apisDelegated", "apisApplication"} : ~Truthy(options, n)

\* The grants an invocation may fan out.
FannedRequests ==
  {r \in {trace[i] : i \in 1..Len(trace)} :
     r.type = "request" /\ r.url[1] \in {"oauth2PermissionGrants", "servicePrincipals/"}}

\* C22: every invocation of `aad app add` starts with no manifest, no app
\* name and no permissions accumulated, the second one of a process as the
\* first; and an invocation that asks for no API neither lists the service
\* principals nor creates one nor grants anything, whatever the invocation
\* before it did.
C22_InvocationsAreIndependent ==
  /\ stage = "Parse" => manifest = NoManifest /\ appName = "" /\ appPermissions = <<>>
  /\ AsksForNoApi => manifest = NoManifest
  /\ AsksForNoApi =>
       \A i \in 1..Len(trace) :
         /\ trace[i] # ListServicePrincipals
         /\ trace[i] # createServicePrincipal(CreatedApp.appId)
         /\ trace[i] \notin FannedRequests

(***************************************************************************)
(* The two commands that look a channel up by its name                     *)
(***************************************************************************)
InitChannels ==
  /\ command \in {ChannelGet, ChannelSet}
  /\ options \in OptionsOf(command)
  /\ m365rc = NoFile
  /\ Fresh

NextChannels ==
  \/ Parse
  \/ EnforceOptionSets
  \/ RunValidator
  \/ CollectTelemetry
  \/ ChannelGetStart
  \/ ChannelGetGroupResponse
  \/ ChannelGetLookupResponse
  \/ ChannelGetInfoResponse
  \/ ChannelSetStart
  \/ ChannelSetLookupResponse
  \/ ChannelSetPatchResponse

SpecChannels == InitChannels /\ [][NextChannels]_vars

NoSuchChannel == <<"The specified channel does not exist in the Microsoft Teams team">>

\* The team whose channels the action looks through.
TeamOfLookup == IF command = ChannelSet THEN options.teamId ELSE teamId

\* The request that follows the lookup, for the channel of the given id.
FollowUp(channelId) ==
  IF command = ChannelSet
    THEN /\ trace'[Len(trace')].method = "PATCH"
         /\ trace'[Len(trace')].url = <<"teams/", TeamOfLookup, "/channels/", channelId>>
    ELSE /\ trace'[Len(trace')].method = "GET"
         /\ trace'[Len(trace')].url = <<"teams/", TeamOfLookup, "/channels/", channelId>>

\* The lookup by name is answered, with a list, in this step.
LookupAnswered ==
  /\ command \in {ChannelGet, ChannelSet}
  /\ pc = "awaitLookup"
  /\ Len(answers') = Len(answers) + 1
  /\ answers'[Len(answers')].shape = "list"

\* C30: in `teams channel get` and `teams channel set`, a lookup by name that
\* returns one channel or several goes on with the id of the first, without an
\* error; a lookup that returns none fails with 'The specified channel does
\* not exist in the Microsoft Teams team' and sends no further request.
C30_FirstChannelOrNone ==
  /\ [][LookupAnswered =>
          LET ids == answers'[Len(answers')].ids
          IN IF ids # <<>>
               THEN /\ Len(trace') = Len(trace) + 1
                    /\ FollowUp(ids[1])
                    /\ error' = NoError
                    /\ stage' = stage
               ELSE /\ trace' = trace
                    /\ stage' = "Failed"
                    /\ error' = NoSuchChannel]_vars
  /\ []((command \in {ChannelGet, ChannelSet} /\ error = NoSuchChannel) =>
          /\ trace # <<>>
          /\ trace[Len(trace)] = ChannelLookup(TeamOfLookup, options.channelName))
  /\ [][(command \in {ChannelGet, ChannelSet} /\ error = NoSuchChannel) =>
          trace' = trace]_vars

\* `teams channel set` sends its PATCH for the first of two channels of the
\* name.
C30_Witness ==
  /\ command = ChannelSet
  /\ pc = "awaitInfo"
  /\ Len(lookups) = 1
  /\ Len(lookups[1].ids) = 2
  /\ trace[Len(trace)] = ChannelPatch(options, lookups[1].ids[1])

Next ==
  \/ Parse
  \/ EnforceOptionSets
  \/ RunValidator
  \/ CollectTelemetry
  \/ TeamRemoveStart
  \/ TeamRemoveAnswer
  \/ TeamRemoveRemoveTeam
  \/ TeamRemoveGroupResponse
  \/ TeamRemoveDeleteResponse
  \/ AppGetStart
  \/ AppGetLookupResponse
  \/ AppGetInfoResponse
  \/ SpGetStart
  \/ SpGetLookupResponse
  \/ SpGetInfoResponse
  \/ ChannelGetStart
  \/ ChannelGetGroupResponse
  \/ ChannelGetLookupResponse
  \/ ChannelGetInfoResponse
  \/ FeatureListStart
  \/ FeatureListResponse

Spec == Init /\ [][Next]_vars

\* The executor goes on, the service answers every request and the person at
\* the prompt answers it.
SpecFair == Init /\ [][Next]_vars /\ WF_vars(Next)

====
